---- MODULE Spec2Model ----
(***************************************************************************)
(* The voters, polls and votes services of the Voting-Application: three   *)
(* Go stores (VoterList, PollList, VoteList) that keep one JSON document   *)
(* per key in one shared Redis instance, under the key prefixes "voters:", *)
(* "polls:" and "votes:".                                                  *)
(*                                                                         *)
(* redis is the content of the shared Redis instance: a function from the  *)
(* keys that exist to the JSON document stored under each.  last is the    *)
(* most recent call of a store method with its argument and its results,   *)
(* prev the method and the ids of the call before it when that call was a  *)
(* successful write, and calls the number of calls made so far.  inflight  *)
(* is, for each of the callers that run at the same time, the call it is   *)
(* in: the method, its argument, the Redis command it is about to send,    *)
(* the keys a KEYS command answered, and the error the call returned.      *)
(* health holds, for the polls and the votes service, the value of the     *)
(* process-wide variable calls of its handlers and the number of requests  *)
(* the service has answered.                                               *)
(***************************************************************************)
EXTENDS Integers, Sequences, FiniteSets, TLC

VARIABLES redis, last, prev, calls, inflight, health

vars == <<redis, last, prev, calls, inflight, health>>

----------------------------------------------------------------------------
(* Bounds of the explored inputs. *)

MaxId == 1
MaxHist == 2
MaxCalls == 4
MaxVoterCalls == 3
MaxRaceCalls == 4
MaxFaultCalls == 3
MaxHttpCalls == 3

Ids == 0..MaxId
\* A VoteDate; 0 is the zero value of time.Time.
Dates == {0, 1}

----------------------------------------------------------------------------
(* Go values and their JSON encoding (encoding/json).                      *)
(* A Go slice is nil or holds elements; json.Marshal writes a nil slice as *)
(* null and any other slice as an array, json.Unmarshal into a fresh       *)
(* variable reads null as the nil slice and an array as a slice.           *)

NilSlice == [isNil |-> TRUE, elems |-> <<>>]
MakeSlice(s) == [isNil |-> FALSE, elems |-> s]
JSONNull == [null |-> TRUE, array |-> <<>>]

MarshalSlice(s) == IF s.isNil THEN JSONNull ELSE [null |-> FALSE, array |-> s.elems]
UnmarshalSlice(j) == IF j.null THEN NilSlice ELSE MakeSlice(j.array)

\* json.Unmarshal into a variable that already holds a slice decodes the
\* elements of an array into the slice's backing array, from its first
\* position on, and allocates a larger array once the capacity is used up;
\* null stores the nil slice and an empty array a fresh empty slice. How the
\* capacity grows depends on the Go release the service is built with: by a
\* half and to 4 at least, or by doubling.
GrowthRules == {"half", "double"}

\* The least of a non-empty set of positions.
First(S) == CHOOSE i \in S : \A j \in S : i <= j

Grow(rule, cap) ==
    IF rule = "half" THEN (IF cap + (cap \div 2) < 4 THEN 4 ELSE cap + (cap \div 2))
    ELSE (IF cap = 0 THEN 1 ELSE 2 * cap)

RECURSIVE GrowTo(_, _, _)
GrowTo(rule, cap, m) == IF cap >= m THEN cap ELSE GrowTo(rule, Grow(rule, cap), m)

\* A loop that unmarshals the entities ents, one after the other, into one
\* variable and appends a copy of the variable to a list after each: the copy
\* shares the backing arrays of the variable's slice fields. list is the list
\* so far, sharing[f] the positions of the list whose field f shares its
\* array with the variable's, caps[f] the capacity of that array.
RECURSIVE ListLoop(_, _, _, _, _, _, _)
ListLoop(ents, i, list, sharing, caps, fields, rule) ==
    IF i > Len(ents) THEN list
    ELSE LET e == ents[i]
             m(f) == Len(e[f].elems)
             written(f) == IF m(f) < caps[f] THEN m(f) ELSE caps[f]
             hit(old, f) == MakeSlice([k \in 1..Len(old.elems) |->
                               IF k <= written(f) THEN e[f].elems[k] ELSE old.elems[k]])
             seen == [j \in 1..Len(list) |->
                        [f \in DOMAIN list[j] |->
                            IF f \in fields /\ j \in sharing[f] /\ written(f) > 0
                            THEN hit(list[j][f], f) ELSE list[j][f]]]
             fresh(f) == m(f) = 0 \/ m(f) > caps[f]
         IN  ListLoop(ents, i + 1, Append(seen, e),
                      [f \in fields |-> IF fresh(f) THEN {i} ELSE sharing[f] \cup {i}],
                      [f \in fields |-> IF m(f) = 0 THEN 0 ELSE GrowTo(rule, caps[f], m(f))],
                      fields, rule)

\* The list the loop builds from an empty list and a zero variable.
ReusedVariable(ents, fields, rule) ==
    ListLoop(ents, 1, <<>>, [f \in fields |-> {}], [f \in fields |-> 0], fields, rule)

NoError == "nil"
RedisNilError == "redis: nil"
BackendError == "dial tcp: connection refused"
DelArityError == "ERR wrong number of arguments for 'del' command"
IndexOutOfRange == "panic: index out of range"

----------------------------------------------------------------------------
(* Redis commands on a store r.                                            *)

\* A call may find the backend failing: r is then the store with a mark for
\* the commands that fail during the call, the reading ones (JSON.GET, KEYS)
\* or the writing ones (JSON.SET, DEL). No record is stored under a mark.
ReadsFail == <<"fail:", 0>>
WritesFail == <<"fail:", 1>>

Failing(r, marks) == [k \in (DOMAIN r) \cup marks |-> IF k \in marks THEN TRUE ELSE r[k]]
Unmarked(r) == [k \in (DOMAIN r) \ {ReadsFail, WritesFail} |-> r[k]]

JSONGet(r, key) ==
    IF ReadsFail \in DOMAIN r THEN [err |-> BackendError, doc |-> JSONNull]
    ELSE IF key \in DOMAIN r THEN [err |-> NoError, doc |-> r[key]]
    ELSE [err |-> RedisNilError, doc |-> JSONNull]

JSONSet(r, key, doc) ==
    IF WritesFail \in DOMAIN r THEN [err |-> BackendError, store |-> r]
    ELSE [err |-> NoError,
          store |-> [k \in (DOMAIN r) \cup {key} |-> IF k = key THEN doc ELSE r[k]]]

\* DEL key [key ...]: removes the keys that exist and reports how many it
\* removed; with no key at all the server rejects the command.
Del(r, ks) ==
    IF WritesFail \in DOMAIN r THEN [err |-> BackendError, n |-> 0, store |-> r]
    ELSE IF ks = {} THEN [err |-> DelArityError, n |-> 0, store |-> r]
    ELSE [err |-> NoError,
          n |-> Cardinality(ks \cap DOMAIN r),
          store |-> [k \in (DOMAIN r) \ ks |-> r[k]]]

\* KEYS <prefix>*; the callers drop its error and go on with no key.
Keys(r, prefix) ==
    IF ReadsFail \in DOMAIN r THEN {}
    ELSE {k \in DOMAIN r : k[1] = prefix}

----------------------------------------------------------------------------
(* Voters service: src/Voter-Container/db/voters.go                        *)

VoterKeyPrefix == "voters:"

VoterRedisKeyFromId(id) == <<VoterKeyPrefix, id>>

EmptyVoter == [VoterID |-> 0, FirstName |-> "", LastName |-> "", VoteHistory |-> NilSlice]
EmptyVoterPoll == [PollID |-> 0, VoteDate |-> 0]

MarshalVoter(voter) ==
    [VoterID |-> voter.VoterID, FirstName |-> voter.FirstName,
     LastName |-> voter.LastName, VoteHistory |-> MarshalSlice(voter.VoteHistory)]

UnmarshalVoter(doc) ==
    [VoterID |-> doc.VoterID, FirstName |-> doc.FirstName,
     LastName |-> doc.LastName, VoteHistory |-> UnmarshalSlice(doc.VoteHistory)]

VoterGetItemFromRedis(r, key) ==
    LET got == JSONGet(r, key)
    IN  IF got.err # NoError THEN [err |-> got.err, voter |-> EmptyVoter]
        ELSE [err |-> NoError, voter |-> UnmarshalVoter(got.doc)]

\* AddVoter without the check that the voter is not stored yet.
AddVoterOverwrite(r, voter) ==
    JSONSet(r, VoterRedisKeyFromId(voter.VoterID), MarshalVoter(voter))

AddVoter(r, voter) ==
    LET redisKey == VoterRedisKeyFromId(voter.VoterID)
    IN  IF VoterGetItemFromRedis(r, redisKey).err = NoError
        THEN [err |-> "voter already exists", store |-> r]
        ELSE JSONSet(r, redisKey, MarshalVoter(voter))

\* DeleteVoter without the test of the number of deleted keys.
DeleteVoterSilent(r, id) ==
    LET d == Del(r, {VoterRedisKeyFromId(id)})
    IN  [err |-> d.err, store |-> d.store]

\* DeleteVoter removing the votes of the voter with it.
DeleteVoterCascade(r, id) ==
    LET cast == {k \in DOMAIN r : k[1] = "votes:" /\ r[k].VoterID = id}
        d == Del(r, {VoterRedisKeyFromId(id)} \cup cast)
    IN  IF d.err # NoError THEN [err |-> d.err, store |-> d.store]
        ELSE IF d.n = 0 THEN [err |-> "voter does not exist", store |-> d.store]
        ELSE [err |-> NoError, store |-> d.store]

DeleteVoter(r, id) ==
    LET d == Del(r, {VoterRedisKeyFromId(id)})
    IN  IF d.err # NoError THEN [err |-> d.err, store |-> d.store]
        ELSE IF d.n = 0 THEN [err |-> "voter does not exist", store |-> d.store]
        ELSE [err |-> NoError, store |-> d.store]

DeleteAllVoters(r) ==
    LET ks == Keys(r, VoterKeyPrefix)
        d == Del(r, ks)
    IN  IF d.err # NoError THEN [err |-> d.err, store |-> d.store]
        ELSE IF d.n # Cardinality(ks)
             THEN [err |-> "one or more voters could not be deleted", store |-> d.store]
        ELSE [err |-> NoError, store |-> d.store]

\* UpdateVoter keeping the stored history when the new one is empty.
UpdateVoterMerge(r, voter) ==
    LET redisKey == VoterRedisKeyFromId(voter.VoterID)
        got == VoterGetItemFromRedis(r, redisKey)
        merged == IF Len(voter.VoteHistory.elems) = 0
                  THEN [voter EXCEPT !.VoteHistory = got.voter.VoteHistory]
                  ELSE voter
    IN  IF got.err # NoError
        THEN [err |-> "voter does not exist", store |-> r]
        ELSE JSONSet(r, redisKey, MarshalVoter(merged))

UpdateVoter(r, voter) ==
    LET redisKey == VoterRedisKeyFromId(voter.VoterID)
    IN  IF VoterGetItemFromRedis(r, redisKey).err # NoError
        THEN [err |-> "voter does not exist", store |-> r]
        ELSE JSONSet(r, redisKey, MarshalVoter(voter))

GetVoter(r, id) ==
    LET got == VoterGetItemFromRedis(r, VoterRedisKeyFromId(id))
    IN  IF got.err # NoError THEN [err |-> "voter does not exist", voter |-> EmptyVoter]
        ELSE [err |-> NoError, voter |-> got.voter]

\* ks is the answer of KEYS voters:* as a sequence, in the order Redis chose.
GetAllVoters(r, ks, rule) ==
    IF \E i \in 1..Len(ks) : VoterGetItemFromRedis(r, ks[i]).err # NoError
    THEN [err |-> VoterGetItemFromRedis(r, ks[First({i \in 1..Len(ks) :
                         VoterGetItemFromRedis(r, ks[i]).err # NoError})]).err,
          voters |-> NilSlice]
    ELSE LET voterList == ReusedVariable([i \in 1..Len(ks) |->
                                            VoterGetItemFromRedis(r, ks[i]).voter],
                                         {"VoteHistory"}, rule)
         IN  [err |-> NoError,
              voters |-> IF Len(ks) = 0 THEN NilSlice ELSE MakeSlice(voterList)]

\* The handler of GET /voters: the nil slice of the store becomes an empty one.
ListAllVoters(r, ks, rule) ==
    LET res == GetAllVoters(r, ks, rule)
    IN  IF res.err # NoError THEN [err |-> res.err, voters |-> NilSlice]
        ELSE IF res.voters.isNil THEN [err |-> NoError, voters |-> MakeSlice(<<>>)]
        ELSE res

\* The position of the first entry of history h with the given PollID, 0 when
\* there is none (the loops of lines 406, 443, 482 and 529; Go's index -1).
RECURSIVE ScanFrom(_, _, _)
ScanFrom(h, pollId, i) ==
    IF i > Len(h) THEN 0
    ELSE IF h[i].PollID = pollId THEN i
    ELSE ScanFrom(h, pollId, i + 1)

IndexOfPoll(h, pollId) == ScanFrom(h, pollId, 1)

GetVoterPolls(r, id) ==
    LET got == VoterGetItemFromRedis(r, VoterRedisKeyFromId(id))
    IN  IF got.err # NoError THEN [err |-> "voter does not exist", polls |-> NilSlice]
        ELSE [err |-> NoError, polls |-> got.voter.VoteHistory]

\* GetVoterPoll as the map-backed store wrote it: an entry equal to the empty
\* voterPoll counts as not found.
GetVoterPollNonEmpty(r, voterId, pollId) ==
    LET got == VoterGetItemFromRedis(r, VoterRedisKeyFromId(voterId))
        h == got.voter.VoteHistory.elems
        i == IndexOfPoll(h, pollId)
    IN  IF got.err # NoError THEN [err |-> "voter does not exist", poll |-> EmptyVoterPoll]
        ELSE IF i # 0 /\ h[i] # EmptyVoterPoll THEN [err |-> NoError, poll |-> h[i]]
        ELSE [err |-> "poll not found for given voter", poll |-> EmptyVoterPoll]

GetVoterPoll(r, voterId, pollId) ==
    LET got == VoterGetItemFromRedis(r, VoterRedisKeyFromId(voterId))
        h == got.voter.VoteHistory.elems
        i == IndexOfPoll(h, pollId)
    IN  IF got.err # NoError THEN [err |-> "voter does not exist", poll |-> EmptyVoterPoll]
        ELSE IF i # 0 THEN [err |-> NoError, poll |-> h[i]]
        ELSE [err |-> "poll not found for given voter", poll |-> EmptyVoterPoll]

\* AddVoterPoll that writes the record back under the VoterID of the request.
AddVoterPollUnderRequestId(r, voterId, requestVoter) ==
    LET got == VoterGetItemFromRedis(r, VoterRedisKeyFromId(voterId))
        voter == got.voter
        h == voter.VoteHistory.elems
        req == requestVoter.VoteHistory.elems
    IN  IF got.err # NoError THEN [err |-> "voter does not exist", store |-> r]
        ELSE IF Len(req) = 0 THEN [err |-> IndexOutOfRange, store |-> r]
        ELSE IF IndexOfPoll(h, req[1].PollID) # 0
             THEN [err |-> "poll already exists in voter", store |-> r]
        ELSE [err |-> NoError,
              store |-> UpdateVoter(r, [voter EXCEPT
                           !.VoterID = requestVoter.VoterID,
                           !.VoteHistory = MakeSlice(Append(h, req[1]))]).store]

\* AddVoterPoll without the scan for an entry of the same PollID.
AddVoterPollAppend(r, voterId, requestVoter) ==
    LET got == VoterGetItemFromRedis(r, VoterRedisKeyFromId(voterId))
        voter == got.voter
        h == voter.VoteHistory.elems
        req == requestVoter.VoteHistory.elems
    IN  IF got.err # NoError THEN [err |-> "voter does not exist", store |-> r]
        ELSE IF Len(req) = 0 THEN [err |-> IndexOutOfRange, store |-> r]
        ELSE [err |-> NoError,
              store |-> UpdateVoter(r, [voter EXCEPT
                           !.VoteHistory = MakeSlice(Append(h, req[1]))]).store]

\* The result UpdateVoter returns at lines 450, 495 and 541 is dropped; only
\* its effect on the store is kept.
AddVoterPoll(r, voterId, requestVoter) ==
    LET got == VoterGetItemFromRedis(r, VoterRedisKeyFromId(voterId))
        voter == got.voter
        h == voter.VoteHistory.elems
        req == requestVoter.VoteHistory.elems
    IN  IF got.err # NoError THEN [err |-> "voter does not exist", store |-> r]
        ELSE IF Len(req) = 0 THEN [err |-> IndexOutOfRange, store |-> r]
        ELSE IF IndexOfPoll(h, req[1].PollID) # 0
             THEN [err |-> "poll already exists in voter", store |-> r]
        ELSE [err |-> NoError,
              store |-> UpdateVoter(r, [voter EXCEPT
                           !.VoteHistory = MakeSlice(Append(h, req[1]))]).store]

DeleteVoterPoll(r, voterId, pollId) ==
    LET got == VoterGetItemFromRedis(r, VoterRedisKeyFromId(voterId))
        voter == got.voter
        h == voter.VoteHistory.elems
        index == IndexOfPoll(h, pollId)
        swapped == [h EXCEPT ![index] = h[Len(h)]]
    IN  IF got.err # NoError THEN [err |-> "voter does not exist", store |-> r]
        ELSE IF index = 0 THEN [err |-> "poll does not exist in voter", store |-> r]
        ELSE [err |-> NoError,
              store |-> UpdateVoter(r, [voter EXCEPT
                           !.VoteHistory = MakeSlice(SubSeq(swapped, 1, Len(h) - 1))]).store]

\* UpdateVoterPoll that drops the entry found and appends the new one.
UpdateVoterPollMove(r, voterId, requestVoter) ==
    LET got == VoterGetItemFromRedis(r, VoterRedisKeyFromId(voterId))
        voter == got.voter
        h == voter.VoteHistory.elems
        req == requestVoter.VoteHistory.elems
        index == IF Len(req) = 0 THEN 0 ELSE IndexOfPoll(h, req[1].PollID)
        moved == Append(SubSeq([h EXCEPT ![index] = h[Len(h)]], 1, Len(h) - 1), req[1])
    IN  IF got.err # NoError THEN [err |-> "voter does not exist", store |-> r]
        ELSE IF Len(req) = 0 THEN [err |-> IndexOutOfRange, store |-> r]
        ELSE IF index = 0 THEN [err |-> "poll does not exist in voter", store |-> r]
        ELSE [err |-> NoError,
              store |-> UpdateVoter(r, [voter EXCEPT !.VoteHistory = MakeSlice(moved)]).store]

UpdateVoterPoll(r, voterId, requestVoter) ==
    LET got == VoterGetItemFromRedis(r, VoterRedisKeyFromId(voterId))
        voter == got.voter
        h == voter.VoteHistory.elems
        req == requestVoter.VoteHistory.elems
        index == IF Len(req) = 0 THEN 0 ELSE IndexOfPoll(h, req[1].PollID)
    IN  IF got.err # NoError THEN [err |-> "voter does not exist", store |-> r]
        ELSE IF Len(req) = 0 THEN [err |-> IndexOutOfRange, store |-> r]
        ELSE IF index = 0 THEN [err |-> "poll does not exist in voter", store |-> r]
        ELSE [err |-> NoError,
              store |-> UpdateVoter(r, [voter EXCEPT
                           !.VoteHistory = MakeSlice([h EXCEPT ![index] = req[1]])]).store]

----------------------------------------------------------------------------
(* Polls service: the db package of polls-api (src/unnamed/part_000)       *)

PollKeyPrefix == "polls:"

PollRedisKeyFromId(id) == <<PollKeyPrefix, id>>

PollLinks ==
    <<"GET All Polls: 1090/polls/", "POST Poll: 1090/polls/:id",
      "DELETE All Polls: 1090/polls", "DELETE Poll: 1090/polls/:id",
      "GET All Votes: 1100/votes/", "POST Vote: 1100/votes/:id",
      "GET All Voters: 1080/voters/", "POST Voter: 1080/voters/:id">>

EmptyPoll == [PollID |-> 0, PollTitle |-> "", PollQuestion |-> "",
              PollOptions |-> NilSlice, Links |-> NilSlice]

MarshalPoll(poll) ==
    [PollID |-> poll.PollID, PollTitle |-> poll.PollTitle,
     PollQuestion |-> poll.PollQuestion,
     PollOptions |-> MarshalSlice(poll.PollOptions),
     Links |-> MarshalSlice(poll.Links)]

UnmarshalPoll(doc) ==
    [PollID |-> doc.PollID, PollTitle |-> doc.PollTitle,
     PollQuestion |-> doc.PollQuestion,
     PollOptions |-> UnmarshalSlice(doc.PollOptions),
     Links |-> UnmarshalSlice(doc.Links)]

PollGetItemFromRedis(r, key) ==
    LET got == JSONGet(r, key)
    IN  IF got.err # NoError THEN [err |-> got.err, poll |-> EmptyPoll]
        ELSE [err |-> NoError, poll |-> UnmarshalPoll(got.doc)]

\* AddPoll storing the Links of the caller.
AddPollKeepLinks(r, poll) ==
    LET redisKey == PollRedisKeyFromId(poll.PollID)
    IN  IF PollGetItemFromRedis(r, redisKey).err = NoError
        THEN [err |-> "poll already exists", store |-> r]
        ELSE JSONSet(r, redisKey, MarshalPoll(poll))

AddPoll(r, poll) ==
    LET redisKey == PollRedisKeyFromId(poll.PollID)
        linked == [poll EXCEPT !.Links = MakeSlice(PollLinks)]
    IN  IF PollGetItemFromRedis(r, redisKey).err = NoError
        THEN [err |-> "poll already exists", store |-> r]
        ELSE JSONSet(r, redisKey, MarshalPoll(linked))

DeletePoll(r, id) ==
    LET d == Del(r, {PollRedisKeyFromId(id)})
    IN  IF d.err # NoError THEN [err |-> d.err, store |-> d.store]
        ELSE IF d.n = 0 THEN [err |-> "poll does not exist", store |-> d.store]
        ELSE [err |-> NoError, store |-> d.store]

DeleteAllPolls(r) ==
    LET ks == Keys(r, PollKeyPrefix)
        d == Del(r, ks)
    IN  IF d.err # NoError THEN [err |-> d.err, store |-> d.store]
        ELSE IF d.n # Cardinality(ks)
             THEN [err |-> "one or more polls could not be deleted", store |-> d.store]
        ELSE [err |-> NoError, store |-> d.store]

\* UpdatePoll that stores the Links its caller sent.
UpdatePollKeepLinks(r, poll) ==
    LET redisKey == PollRedisKeyFromId(poll.PollID)
    IN  IF PollGetItemFromRedis(r, redisKey).err # NoError
        THEN [err |-> "poll does not exist", store |-> r]
        ELSE JSONSet(r, redisKey, MarshalPoll(poll))

UpdatePoll(r, poll) ==
    LET redisKey == PollRedisKeyFromId(poll.PollID)
        linked == [poll EXCEPT !.Links = MakeSlice(PollLinks)]
    IN  IF PollGetItemFromRedis(r, redisKey).err # NoError
        THEN [err |-> "poll does not exist", store |-> r]
        ELSE JSONSet(r, redisKey, MarshalPoll(linked))

GetPoll(r, id) ==
    LET got == PollGetItemFromRedis(r, PollRedisKeyFromId(id))
    IN  IF got.err # NoError THEN [err |-> "poll does not exist", poll |-> EmptyPoll]
        ELSE [err |-> NoError, poll |-> got.poll]

\* ks is the answer of KEYS polls:* as a sequence, in the order Redis chose.
GetAllPolls(r, ks, rule) ==
    IF \E i \in 1..Len(ks) : PollGetItemFromRedis(r, ks[i]).err # NoError
    THEN [err |-> PollGetItemFromRedis(r, ks[First({i \in 1..Len(ks) :
                         PollGetItemFromRedis(r, ks[i]).err # NoError})]).err,
          polls |-> <<>>]
    ELSE LET pollList == ReusedVariable([i \in 1..Len(ks) |->
                                           PollGetItemFromRedis(r, ks[i]).poll],
                                        {"PollOptions", "Links"}, rule)
         IN  IF Len(pollList) < 1
             THEN [err |-> NoError,
                   polls |-> <<[EmptyPoll EXCEPT !.PollOptions = MakeSlice(<<>>),
                                                 !.Links = MakeSlice(PollLinks)]>>]
             ELSE [err |-> NoError, polls |-> pollList]

----------------------------------------------------------------------------
(* Votes service: src/Voting-Application/votes-api/db/votes.go             *)

VoteKeyPrefix == "votes:"

VoteRedisKeyFromId(id) == <<VoteKeyPrefix, id>>

VoteLinks ==
    <<"GET All Votes: 1100/votes/", "POST Vote: 1100/votes/:id",
      "DELETE All Votes: 1100/votes", "DELETE Vote: 1100/votes/:id",
      "GET All Voters: 1080/voters/", "POST Voter: 1080/voters/:id",
      "GET All Polls: 1090/Polls/", "POST Poll: 1090/polls/:id">>

EmptyVote == [VoteID |-> 0, VoterID |-> 0, PollID |-> 0, VoteValue |-> 0,
              Links |-> NilSlice]

MarshalVote(vote) ==
    [VoteID |-> vote.VoteID, VoterID |-> vote.VoterID, PollID |-> vote.PollID,
     VoteValue |-> vote.VoteValue, Links |-> MarshalSlice(vote.Links)]

\* json.Unmarshal into a Vote: a field the document lacks keeps the value the
\* variable had, here the zero value (AddVote reads voter and poll documents
\* into Vote variables, lines 162-168).
Field(doc, name, zero) == IF name \in DOMAIN doc THEN doc[name] ELSE zero

UnmarshalVote(doc) ==
    [VoteID |-> Field(doc, "VoteID", 0), VoterID |-> Field(doc, "VoterID", 0),
     PollID |-> Field(doc, "PollID", 0), VoteValue |-> Field(doc, "VoteValue", 0),
     Links |-> UnmarshalSlice(Field(doc, "Links", JSONNull))]

VoteGetItemFromRedis(r, key) ==
    LET got == JSONGet(r, key)
    IN  IF got.err # NoError THEN [err |-> got.err, vote |-> EmptyVote]
        ELSE [err |-> NoError, vote |-> UnmarshalVote(got.doc)]

\* AddVote that looks at the voter and the poll before it looks at the vote.
AddVoteReferencesFirst(r, vote) ==
    LET redisKey == VoteRedisKeyFromId(vote.VoteID)
        linked == [vote EXCEPT !.Links = MakeSlice(VoteLinks)]
    IN  IF VoteGetItemFromRedis(r, <<"voters:", vote.VoterID>>).err # NoError
        THEN [err |-> "voter does not exists", store |-> r]
        ELSE IF VoteGetItemFromRedis(r, <<"polls:", vote.PollID>>).err # NoError
        THEN [err |-> "poll does not exists", store |-> r]
        ELSE IF VoteGetItemFromRedis(r, redisKey).err = NoError
        THEN [err |-> "vote already exists", store |-> r]
        ELSE JSONSet(r, redisKey, MarshalVote(linked))

\* AddVote with the two reference checks in the other order.
AddVotePollFirst(r, vote) ==
    LET redisKey == VoteRedisKeyFromId(vote.VoteID)
        linked == [vote EXCEPT !.Links = MakeSlice(VoteLinks)]
    IN  IF VoteGetItemFromRedis(r, redisKey).err = NoError
        THEN [err |-> "vote already exists", store |-> r]
        ELSE IF VoteGetItemFromRedis(r, <<"polls:", vote.PollID>>).err # NoError
        THEN [err |-> "poll does not exists", store |-> r]
        ELSE IF VoteGetItemFromRedis(r, <<"voters:", vote.VoterID>>).err # NoError
        THEN [err |-> "voter does not exists", store |-> r]
        ELSE JSONSet(r, redisKey, MarshalVote(linked))

AddVote(r, vote) ==
    LET redisKey == VoteRedisKeyFromId(vote.VoteID)
        linked == [vote EXCEPT !.Links = MakeSlice(VoteLinks)]
    IN  IF VoteGetItemFromRedis(r, redisKey).err = NoError
        THEN [err |-> "vote already exists", store |-> r]
        ELSE IF VoteGetItemFromRedis(r, <<"voters:", vote.VoterID>>).err # NoError
        THEN [err |-> "voter does not exists", store |-> r]
        ELSE IF VoteGetItemFromRedis(r, <<"polls:", vote.PollID>>).err # NoError
        THEN [err |-> "poll does not exists", store |-> r]
        ELSE JSONSet(r, redisKey, MarshalVote(linked))

DeleteVote(r, id) ==
    LET d == Del(r, {VoteRedisKeyFromId(id)})
    IN  IF d.err # NoError THEN [err |-> d.err, store |-> d.store]
        ELSE IF d.n = 0 THEN [err |-> "vote does not exist", store |-> d.store]
        ELSE [err |-> NoError, store |-> d.store]

DeleteAllVotes(r) ==
    LET ks == Keys(r, VoteKeyPrefix)
        d == Del(r, ks)
    IN  IF d.err # NoError THEN [err |-> d.err, store |-> d.store]
        ELSE IF d.n # Cardinality(ks)
             THEN [err |-> "one or more votes could not be deleted", store |-> d.store]
        ELSE [err |-> NoError, store |-> d.store]

\* UpdateVote with the reference checks of AddVote.
UpdateVoteChecked(r, vote) ==
    LET redisKey == VoteRedisKeyFromId(vote.VoteID)
        linked == [vote EXCEPT !.Links = MakeSlice(VoteLinks)]
    IN  IF VoteGetItemFromRedis(r, redisKey).err # NoError
        THEN [err |-> "vote does not exist", store |-> r]
        ELSE IF VoteGetItemFromRedis(r, <<"voters:", vote.VoterID>>).err # NoError
        THEN [err |-> "voter does not exists", store |-> r]
        ELSE IF VoteGetItemFromRedis(r, <<"polls:", vote.PollID>>).err # NoError
        THEN [err |-> "poll does not exists", store |-> r]
        ELSE JSONSet(r, redisKey, MarshalVote(linked))

UpdateVote(r, vote) ==
    LET redisKey == VoteRedisKeyFromId(vote.VoteID)
        linked == [vote EXCEPT !.Links = MakeSlice(VoteLinks)]
    IN  IF VoteGetItemFromRedis(r, redisKey).err # NoError
        THEN [err |-> "vote does not exist", store |-> r]
        ELSE JSONSet(r, redisKey, MarshalVote(linked))

GetVote(r, id) ==
    LET got == VoteGetItemFromRedis(r, VoteRedisKeyFromId(id))
    IN  IF got.err # NoError THEN [err |-> "vote does not exist", vote |-> EmptyVote]
        ELSE [err |-> NoError, vote |-> got.vote]

\* ks is the answer of KEYS votes:* as a sequence, in the order Redis chose.
GetAllVotes(r, ks, rule) ==
    IF \E i \in 1..Len(ks) : VoteGetItemFromRedis(r, ks[i]).err # NoError
    THEN [err |-> VoteGetItemFromRedis(r, ks[First({i \in 1..Len(ks) :
                         VoteGetItemFromRedis(r, ks[i]).err # NoError})]).err,
          votes |-> <<>>]
    ELSE LET voteList == ReusedVariable([i \in 1..Len(ks) |->
                                           VoteGetItemFromRedis(r, ks[i]).vote],
                                        {"Links"}, rule)
         IN  IF Len(voteList) < 1
             THEN [err |-> NoError,
                   votes |-> <<[EmptyVote EXCEPT !.Links = MakeSlice(VoteLinks)]>>]
             ELSE [err |-> NoError, votes |-> voteList]

----------------------------------------------------------------------------------------------------------------------------------------
(* Inputs of the calls.                                                    *)

\* The ids of the records the three-store specification creates.
Referenced == {0, 1}

\* Voters of the three-store specification: two people per id, one of them
\* with a vote history.
People == {[FirstName |-> "John", LastName |-> "Doe", VoteHistory |-> NilSlice],
           [FirstName |-> "Jane", LastName |-> "Roe",
            VoteHistory |-> MakeSlice(<<[PollID |-> 0, VoteDate |-> 1]>>)]}
VoterInputs == {[VoterID |-> id, FirstName |-> p.FirstName, LastName |-> p.LastName,
                 VoteHistory |-> p.VoteHistory] : id \in Referenced, p \in People}

\* The voters a call of UpdateVoter carries: the ones without history.
VoterUpdates == {v \in VoterInputs : v.VoteHistory.isNil}

\* Voters of the voters-service specification. A history is nil, or holds the
\* polls 0, 1, ... in this order (at most MaxHist of them), or holds poll 0
\* two times or more; its entries are of the first date. The requests of the
\* /voters/:id/polls routes carry an entry of any date in VoteHistory.
VoterPolls == [PollID : Ids, VoteDate : Dates]
Histories == {NilSlice} \cup
             {MakeSlice([i \in 1..k |-> [PollID |-> i - 1, VoteDate |-> 1]]) :
                k \in {n \in 0..MaxHist : n <= MaxId + 1}} \cup
             {MakeSlice([i \in 1..k |-> [PollID |-> 0, VoteDate |-> 1]]) : k \in 2..MaxHist}
HistoryVoterInputs == [VoterID : Ids, FirstName : {"John"}, LastName : {"Doe"},
                       VoteHistory : Histories]
PollRequests == [VoterID : {0}, FirstName : {""}, LastName : {""},
                 VoteHistory : {NilSlice} \cup {MakeSlice(<<e>>) : e \in VoterPolls}]

Questions == {[PollTitle |-> "Lunch", PollQuestion |-> "Pizza?",
               PollOptions |-> NilSlice, Links |-> NilSlice],
              [PollTitle |-> "Dinner", PollQuestion |-> "Pasta?",
               PollOptions |-> MakeSlice(<<[PollOptionID |-> 1, PollOptionText |-> "yes"]>>),
               Links |-> MakeSlice(<<"GET /crash">>)]}
\* The option of a poll with options carries an id of its own per poll.
PollInputs == {[PollID |-> id, PollTitle |-> q.PollTitle, PollQuestion |-> q.PollQuestion,
                PollOptions |-> IF q.PollOptions.isNil THEN NilSlice
                                ELSE MakeSlice([i \in 1..Len(q.PollOptions.elems) |->
                                       [q.PollOptions.elems[i] EXCEPT !.PollOptionID = id + i]]),
                Links |-> q.Links] :
                  id \in Referenced, q \in Questions}
\* The polls a call of UpdatePoll carries: the ones without options and Links.
PollUpdates == {p \in PollInputs : p.Links.isNil}

\* A vote has an id in Referenced and names one of the voters and one of the
\* polls in Referenced; the caller's Links vary with the vote's value.
VoteInputs == {[VoteID |-> id, VoterID |-> v, PollID |-> p, VoteValue |-> x,
                Links |-> IF x = 0 THEN NilSlice ELSE MakeSlice(<<"GET /crash">>)] :
                  id \in Referenced, v \in Referenced, p \in Referenced, x \in {0, 1}}
\* The votes a call of UpdateVote carries: the ones of value 0, without Links.
VoteUpdates == {v \in VoteInputs : v.Links.isNil}

\* The orders in which KEYS can list the set ks.
Orders(ks) == {o \in [1..Cardinality(ks) -> ks] :
                 \A i, j \in 1..Cardinality(ks) : o[i] = o[j] => i = j}

----------------
(* One action per call of a store method.                                  *)

NoCall == [op |-> "none", ids |-> <<>>, arg |-> <<>>, err |-> NoError, ret |-> <<>>]

Reads == {"GetVoter", "GetVoterPolls", "GetVoterPoll", "GetPoll", "GetVote",
          "GetAllVoters", "GetAllPolls", "GetAllVotes"}

\* What is remembered of the call before the last one: the method and the ids
\* of a write that returned no error, nothing of another call.
Summary(call) ==
    IF call.err = NoError /\ call.op \notin Reads
    THEN [op |-> call.op, ids |-> call.ids]
    ELSE [op |-> "none", ids |-> <<>>]

\* The callers that run at the same time, and a caller that is in no call.
Procs == {1, 2}
Idle == [op |-> "none", pc |-> "idle", arg |-> <<>>, ks |-> {}, err |-> NoError]

Init ==
    /\ redis = <<>>
    /\ last = NoCall
    /\ prev = Summary(NoCall)
    /\ calls = 0
    /\ inflight = [p \in Procs |-> Idle]
    /\ health = [svc \in {"polls", "votes"} |-> [calls |-> 0, requests |-> 0]]

\* ids are the ids the call addresses: the entity's id, and for the calls on
\* one entry of a vote history the voter's id and the entry's PollID.
Call(op, ids, arg, err, store, ret) ==
    /\ calls < MaxCalls
    /\ calls' = calls + 1
    /\ redis' = store
    /\ last' = [op |-> op, ids |-> ids, arg |-> arg, err |-> err, ret |-> ret]
    /\ prev' = Summary(last)
    /\ UNCHANGED <<inflight, health>>

AddVoterCall(inputs) ==
    \E voter \in inputs :
        LET res == AddVoter(redis, voter)
        IN  Call("AddVoter", <<voter.VoterID>>, voter, res.err, res.store, <<>>)

UpdateVoterCall(inputs) ==
    \E voter \in inputs :
        LET res == UpdateVoter(redis, voter)
        IN  Call("UpdateVoter", <<voter.VoterID>>, voter, res.err, res.store, <<>>)

DeleteVoterCall ==
    \E id \in Ids :
        LET res == DeleteVoter(redis, id)
        IN  Call("DeleteVoter", <<id>>, id, res.err, res.store, <<>>)

DeleteAllVotersCall ==
    LET res == DeleteAllVoters(redis)
    IN  Call("DeleteAllVoters", <<>>, <<>>, res.err, res.store, <<>>)

GetVoterCall ==
    \E id \in Ids :
        LET res == GetVoter(redis, id)
        IN  Call("GetVoter", <<id>>, id, res.err, redis, res.voter)

GetVoterPollsCall ==
    \E id \in Ids :
        LET res == GetVoterPolls(redis, id)
        IN  Call("GetVoterPolls", <<id>>, id, res.err, redis, res.polls)

GetVoterPollCall ==
    \E voterId \in Ids, pollId \in Ids :
        LET res == GetVoterPoll(redis, voterId, pollId)
        IN  Call("GetVoterPoll", <<voterId, pollId>>, <<voterId, pollId>>, res.err, redis, res.poll)

RequestIds(voterId, requestVoter) ==
    IF Len(requestVoter.VoteHistory.elems) = 0 THEN <<voterId>>
    ELSE <<voterId, requestVoter.VoteHistory.elems[1].PollID>>

AddVoterPollCall(inputs) ==
    \E voterId \in Ids, requestVoter \in inputs :
        LET res == AddVoterPoll(redis, voterId, requestVoter)
        IN  Call("AddVoterPoll", RequestIds(voterId, requestVoter), <<voterId, requestVoter>>, res.err, res.store, <<>>)

UpdateVoterPollCall(inputs) ==
    \E voterId \in Ids, requestVoter \in inputs :
        LET res == UpdateVoterPoll(redis, voterId, requestVoter)
        IN  Call("UpdateVoterPoll", RequestIds(voterId, requestVoter), <<voterId, requestVoter>>, res.err, res.store, <<>>)

DeleteVoterPollCall ==
    \E voterId \in Ids, pollId \in Ids :
        LET res == DeleteVoterPoll(redis, voterId, pollId)
        IN  Call("DeleteVoterPoll", <<voterId, pollId>>, <<voterId, pollId>>, res.err, res.store, <<>>)

AddPollCall ==
    \E poll \in PollInputs :
        LET res == AddPoll(redis, poll)
        IN  Call("AddPoll", <<poll.PollID>>, poll, res.err, res.store, <<>>)

UpdatePollCall ==
    \E poll \in PollUpdates :
        LET res == UpdatePoll(redis, poll)
        IN  Call("UpdatePoll", <<poll.PollID>>, poll, res.err, res.store, <<>>)

DeletePollCall ==
    \E id \in Ids :
        LET res == DeletePoll(redis, id)
        IN  Call("DeletePoll", <<id>>, id, res.err, res.store, <<>>)

DeleteAllPollsCall ==
    LET res == DeleteAllPolls(redis)
    IN  Call("DeleteAllPolls", <<>>, <<>>, res.err, res.store, <<>>)

GetPollCall ==
    \E id \in Ids :
        LET res == GetPoll(redis, id)
        IN  Call("GetPoll", <<id>>, id, res.err, redis, res.poll)

AddVoteCall ==
    \E vote \in VoteInputs :
        LET res == AddVote(redis, vote)
        IN  Call("AddVote", <<vote.VoteID>>, vote, res.err, res.store, <<>>)

UpdateVoteCall ==
    \E vote \in VoteUpdates :
        LET res == UpdateVote(redis, vote)
        IN  Call("UpdateVote", <<vote.VoteID>>, vote, res.err, res.store, <<>>)

DeleteVoteCall ==
    \E id \in Ids :
        LET res == DeleteVote(redis, id)
        IN  Call("DeleteVote", <<id>>, id, res.err, res.store, <<>>)

DeleteAllVotesCall ==
    LET res == DeleteAllVotes(redis)
    IN  Call("DeleteAllVotes", <<>>, <<>>, res.err, res.store, <<>>)

GetVoteCall ==
    \E id \in Ids :
        LET res == GetVote(redis, id)
        IN  Call("GetVote", <<id>>, id, res.err, redis, res.vote)

GetAllVotersCall ==
    \E ks \in Orders(Keys(redis, VoterKeyPrefix)), rule \in GrowthRules :
        LET res == ListAllVoters(redis, ks, rule)
        IN  Call("GetAllVoters", <<>>, <<>>, res.err, redis, res.voters.elems)

GetAllPollsCall ==
    \E ks \in Orders(Keys(redis, PollKeyPrefix)), rule \in GrowthRules :
        LET res == GetAllPolls(redis, ks, rule)
        IN  Call("GetAllPolls", <<>>, <<>>, res.err, redis, res.polls)

GetAllVotesCall ==
    \E ks \in Orders(Keys(redis, VoteKeyPrefix)), rule \in GrowthRules :
        LET res == GetAllVotes(redis, ks, rule)
        IN  Call("GetAllVotes", <<>>, <<>>, res.err, redis, res.votes)

\* The three stores: create, read, overwrite and delete of each.
Next ==
    \/ AddVoterCall(VoterInputs)
    \/ UpdateVoterCall(VoterUpdates)
    \/ DeleteVoterCall
    \/ DeleteAllVotersCall
    \/ GetVoterCall
    \/ AddPollCall
    \/ UpdatePollCall
    \/ DeletePollCall
    \/ DeleteAllPollsCall
    \/ GetPollCall
    \/ AddVoteCall
    \/ UpdateVoteCall
    \/ DeleteVoteCall
    \/ DeleteAllVotesCall
    \/ GetVoteCall
    \/ GetAllVotesCall
    \/ GetAllVotersCall
    \/ GetAllPollsCall

Spec == Init /\ [][Next]_vars

\* The voters service alone, with the vote histories and their editor.
NextVoters ==
    \/ calls < MaxVoterCalls /\ AddVoterCall(HistoryVoterInputs)
    \/ calls < MaxVoterCalls /\ UpdateVoterCall(HistoryVoterInputs)
    \/ calls < MaxVoterCalls /\ DeleteVoterCall
    \/ calls < MaxVoterCalls /\ DeleteAllVotersCall
    \/ calls < MaxVoterCalls /\ GetVoterCall
    \/ calls < MaxVoterCalls /\ GetAllVotersCall
    \/ calls < MaxVoterCalls /\ GetVoterPollsCall
    \/ calls < MaxVoterCalls /\ GetVoterPollCall
    \/ calls < MaxVoterCalls /\ AddVoterPollCall(PollRequests)
    \/ calls < MaxVoterCalls /\ UpdateVoterPollCall(PollRequests)
    \/ calls < MaxVoterCalls /\ DeleteVoterPollCall

SpecVoters == Init /\ [][NextVoters]_vars

----------------------------------------------------------------------------
(* Callers that run at the same time. Each request runs in a goroutine of  *)
(* its own, and each Redis command of a store method is one step.          *)

\* A write that stores the voter only under a key that is still absent.
AddVoterSetIfAbsent(r, voter) ==
    IF VoterRedisKeyFromId(voter.VoterID) \in DOMAIN r
    THEN [err |-> "voter already exists", store |-> r]
    ELSE JSONSet(r, VoterRedisKeyFromId(voter.VoterID), MarshalVoter(voter))

AddVoterSet(r, voter) ==
    JSONSet(r, VoterRedisKeyFromId(voter.VoterID), MarshalVoter(voter))

\* Caller p is free to start a call.
Started(p) ==
    /\ inflight[p].pc \in {"idle", "done"}
    /\ calls < MaxRaceCalls
    /\ calls' = calls + 1

\* Caller p goes on to the command pc of its call.
Goto(p, op, arg, pc, ks) ==
    /\ inflight' = [inflight EXCEPT ![p] =
                      [op |-> op, pc |-> pc, arg |-> arg, ks |-> ks, err |-> NoError]]
    /\ UNCHANGED <<last, prev, health>>

\* The call of caller p returns err.
Returns(p, op, arg, err) ==
    /\ inflight' = [inflight EXCEPT ![p] =
                      [op |-> op, pc |-> "done", arg |-> arg, ks |-> {}, err |-> err]]
    /\ UNCHANGED <<last, prev, health>>

\* Caller p is at the command pc of a call of op.
At(p, op, pc) == inflight[p].op = op /\ inflight[p].pc = pc

AddVoterCheck(p) ==
    /\ Started(p)
    /\ redis' = redis
    /\ \E voter \in VoterInputs :
          IF VoterGetItemFromRedis(redis, VoterRedisKeyFromId(voter.VoterID)).err = NoError
          THEN Returns(p, "AddVoter", voter, "voter already exists")
          ELSE Goto(p, "AddVoter", voter, "set", {})

AddVoterWrite(p) ==
    /\ At(p, "AddVoter", "set")
    /\ LET voter == inflight[p].arg
           res == AddVoterSet(redis, voter)
       IN  /\ redis' = res.store
           /\ Returns(p, "AddVoter", voter, res.err)
    /\ UNCHANGED calls

AddPollCheck(p) ==
    /\ Started(p)
    /\ redis' = redis
    /\ \E poll \in {q \in PollInputs : q.PollID = 0} :
          IF PollGetItemFromRedis(redis, PollRedisKeyFromId(poll.PollID)).err = NoError
          THEN Returns(p, "AddPoll", poll, "poll already exists")
          ELSE Goto(p, "AddPoll", poll, "set", {})

AddPollWrite(p) ==
    /\ At(p, "AddPoll", "set")
    /\ LET poll == inflight[p].arg
           res == JSONSet(redis, PollRedisKeyFromId(poll.PollID),
                          MarshalPoll([poll EXCEPT !.Links = MakeSlice(PollLinks)]))
       IN  /\ redis' = res.store
           /\ Returns(p, "AddPoll", poll, res.err)
    /\ UNCHANGED calls

AddVoteCheck(p) ==
    /\ Started(p)
    /\ redis' = redis
    /\ \E vote \in {v \in VoteInputs :
                        v.VoteID \in Referenced /\ v.VoterID = 0 /\ v.PollID = 0} :
          IF VoteGetItemFromRedis(redis, VoteRedisKeyFromId(vote.VoteID)).err = NoError
          THEN Returns(p, "AddVote", vote, "vote already exists")
          ELSE Goto(p, "AddVote", vote, "voter", {})

AddVoteCheckVoter(p) ==
    /\ At(p, "AddVote", "voter")
    /\ LET vote == inflight[p].arg
       IN  IF VoteGetItemFromRedis(redis, <<"voters:", vote.VoterID>>).err # NoError
           THEN Returns(p, "AddVote", vote, "voter does not exists")
           ELSE Goto(p, "AddVote", vote, "poll", {})
    /\ UNCHANGED <<redis, calls>>

AddVoteCheckPoll(p) ==
    /\ At(p, "AddVote", "poll")
    /\ LET vote == inflight[p].arg
       IN  IF VoteGetItemFromRedis(redis, <<"polls:", vote.PollID>>).err # NoError
           THEN Returns(p, "AddVote", vote, "poll does not exists")
           ELSE Goto(p, "AddVote", vote, "set", {})
    /\ UNCHANGED <<redis, calls>>

AddVoteWrite(p) ==
    /\ At(p, "AddVote", "set")
    /\ LET vote == inflight[p].arg
           res == JSONSet(redis, VoteRedisKeyFromId(vote.VoteID),
                          MarshalVote([vote EXCEPT !.Links = MakeSlice(VoteLinks)]))
       IN  /\ redis' = res.store
           /\ Returns(p, "AddVote", vote, res.err)
    /\ UNCHANGED calls

\* The first command of a deleteAll: KEYS.
DeleteAllList(p, op, prefix) ==
    /\ Started(p)
    /\ redis' = redis
    /\ Goto(p, op, <<>>, "del", Keys(redis, prefix))

DeleteAllRemove(p, op, message) ==
    /\ At(p, op, "del")
    /\ LET ks == inflight[p].ks
           d == Del(redis, ks)
           err == IF d.err # NoError THEN d.err
                  ELSE IF d.n # Cardinality(ks) THEN message
                  ELSE NoError
       IN  /\ redis' = d.store
           /\ Returns(p, op, ks, err)
    /\ UNCHANGED calls

\* A delete of one record is one command.
DeleteVoterNow(p) ==
    /\ Started(p)
    /\ \E id \in Ids :
          LET res == DeleteVoter(redis, id)
          IN  redis' = res.store /\ Returns(p, "DeleteVoter", id, res.err)

DeleteVoteNow(p) ==
    /\ Started(p)
    /\ \E id \in Referenced :
          LET res == DeleteVote(redis, id)
          IN  redis' = res.store /\ Returns(p, "DeleteVote", id, res.err)

NextRace ==
    \/ \E p \in Procs : AddVoterCheck(p)
    \/ \E p \in Procs : AddVoterWrite(p)
    \/ \E p \in Procs : AddPollCheck(p)
    \/ \E p \in Procs : AddPollWrite(p)
    \/ \E p \in Procs : AddVoteCheck(p)
    \/ \E p \in Procs : AddVoteCheckVoter(p)
    \/ \E p \in Procs : AddVoteCheckPoll(p)
    \/ \E p \in Procs : AddVoteWrite(p)
    \/ \E p \in Procs : DeleteAllList(p, "DeleteAllVoters", VoterKeyPrefix)
    \/ \E p \in Procs : DeleteAllRemove(p, "DeleteAllVoters",
                                        "one or more voters could not be deleted")
    \/ \E p \in Procs : DeleteAllList(p, "DeleteAllVotes", VoteKeyPrefix)
    \/ \E p \in Procs : DeleteAllRemove(p, "DeleteAllVotes",
                                        "one or more votes could not be deleted")
    \/ \E p \in Procs : DeleteVoterNow(p)
    \/ \E p \in Procs : DeleteVoteNow(p)

SpecRace == Init /\ [][NextRace]_vars

\* The callers of the voters service that edit one stored voter. UpdateVoter
\* is a read and a write; AddVoterPoll is a read, then the read and the write
\* of the UpdateVoter it calls, whose result it drops.
UpdateVoterCheck(p) ==
    /\ Started(p)
    /\ redis' = redis
    /\ \E voter \in VoterUpdates :
          IF VoterGetItemFromRedis(redis, VoterRedisKeyFromId(voter.VoterID)).err # NoError
          THEN Returns(p, "UpdateVoter", voter, "voter does not exist")
          ELSE Goto(p, "UpdateVoter", voter, "set", {})

UpdateVoterWrite(p) ==
    /\ At(p, "UpdateVoter", "set")
    /\ LET voter == inflight[p].arg
           res == JSONSet(redis, VoterRedisKeyFromId(voter.VoterID), MarshalVoter(voter))
       IN  /\ redis' = res.store
           /\ Returns(p, "UpdateVoter", voter, res.err)
    /\ UNCHANGED calls

\* The argument of a call of AddVoterPoll in flight: the id, the request, and
\* the voter the call read with the entry of the request appended.
AddVoterPollRead(p) ==
    /\ Started(p)
    /\ redis' = redis
    /\ \E voterId \in Ids, requestVoter \in PollRequests :
          LET got == VoterGetItemFromRedis(redis, VoterRedisKeyFromId(voterId))
              h == got.voter.VoteHistory.elems
              req == requestVoter.VoteHistory.elems
              arg == <<voterId, requestVoter>>
          IN  IF got.err # NoError
              THEN Returns(p, "AddVoterPoll", arg, "voter does not exist")
              ELSE IF Len(req) = 0
              THEN Returns(p, "AddVoterPoll", arg, IndexOutOfRange)
              ELSE IF IndexOfPoll(h, req[1].PollID) # 0
              THEN Returns(p, "AddVoterPoll", arg, "poll already exists in voter")
              ELSE Goto(p, "AddVoterPoll",
                        <<voterId, requestVoter,
                          [got.voter EXCEPT !.VoteHistory = MakeSlice(Append(h, req[1]))]>>,
                        "check", {})

AddVoterPollCheck(p) ==
    /\ At(p, "AddVoterPoll", "check")
    /\ LET arg == inflight[p].arg
       IN  IF VoterGetItemFromRedis(redis, VoterRedisKeyFromId(arg[3].VoterID)).err # NoError
           THEN Returns(p, "AddVoterPoll", arg, NoError)
           ELSE Goto(p, "AddVoterPoll", arg, "set", {})
    /\ UNCHANGED <<redis, calls>>

AddVoterPollWrite(p) ==
    /\ At(p, "AddVoterPoll", "set")
    /\ LET arg == inflight[p].arg
           res == JSONSet(redis, VoterRedisKeyFromId(arg[3].VoterID), MarshalVoter(arg[3]))
       IN  /\ redis' = res.store
           /\ Returns(p, "AddVoterPoll", arg, NoError)
    /\ UNCHANGED calls

NextRaceVoters ==
    \/ \E p \in Procs : AddVoterCheck(p)
    \/ \E p \in Procs : AddVoterWrite(p)
    \/ \E p \in Procs : UpdateVoterCheck(p)
    \/ \E p \in Procs : UpdateVoterWrite(p)
    \/ \E p \in Procs : AddVoterPollRead(p)
    \/ \E p \in Procs : AddVoterPollCheck(p)
    \/ \E p \in Procs : AddVoterPollWrite(p)
    \/ \E p \in Procs : DeleteVoterNow(p)

SpecRaceVoters == Init /\ [][NextRaceVoters]_vars

----------------------------------------------------------------------------
(* Calls on a backend that may fail. During a call either every command    *)
(* works, or the reading commands fail, or the writing commands fail.      *)

Faults == {{}, {ReadsFail}, {WritesFail}}

\* The calls name voter 0, poll 0 and vote 0.
FaultVoters == {v \in VoterInputs : v.VoterID = 0}
FaultRequests == {q \in PollRequests :
                    \A i \in 1..Len(q.VoteHistory.elems) : q.VoteHistory.elems[i].PollID = 0}
FaultPolls == {q \in PollInputs : q.PollID = 0}
FaultVotes == {v \in VoteInputs : v.VoteID = 0 /\ v.VoterID = 0 /\ v.PollID = 0}

\* A call of op that found the commands of marks failing and returned res;
\* sound is the error the same call returns when no command fails.
FaultyCall(op, arg, marks, res, sound) ==
    /\ calls < MaxFaultCalls
    /\ calls' = calls + 1
    /\ redis' = IF "store" \in DOMAIN res THEN Unmarked(res.store) ELSE redis
    /\ last' = [op |-> op, ids |-> <<0>>, arg |-> arg, err |-> res.err, ret |-> <<>>,
                fails |-> marks, sound |-> sound]
    /\ prev' = Summary(last)
    /\ UNCHANGED <<inflight, health>>

FaultyAddVoter ==
    \E voter \in FaultVoters, marks \in Faults :
        FaultyCall("AddVoter", voter, marks, AddVoter(Failing(redis, marks), voter),
                   AddVoter(redis, voter).err)

FaultyUpdateVoter ==
    \E voter \in FaultVoters, marks \in Faults :
        FaultyCall("UpdateVoter", voter, marks, UpdateVoter(Failing(redis, marks), voter),
                   UpdateVoter(redis, voter).err)

FaultyGetVoter ==
    \E marks \in Faults :
        FaultyCall("GetVoter", 0, marks, GetVoter(Failing(redis, marks), 0),
                   GetVoter(redis, 0).err)

FaultyGetVoterPoll ==
    \E marks \in Faults :
        FaultyCall("GetVoterPoll", <<0, 0>>, marks, GetVoterPoll(Failing(redis, marks), 0, 0),
                   GetVoterPoll(redis, 0, 0).err)

FaultyAddVoterPoll ==
    \E requestVoter \in FaultRequests, marks \in Faults :
        FaultyCall("AddVoterPoll", <<0, requestVoter>>, marks,
                   AddVoterPoll(Failing(redis, marks), 0, requestVoter),
                   AddVoterPoll(redis, 0, requestVoter).err)

FaultyUpdateVoterPoll ==
    \E requestVoter \in FaultRequests, marks \in Faults :
        FaultyCall("UpdateVoterPoll", <<0, requestVoter>>, marks,
                   UpdateVoterPoll(Failing(redis, marks), 0, requestVoter),
                   UpdateVoterPoll(redis, 0, requestVoter).err)

FaultyDeleteVoterPoll ==
    \E marks \in Faults :
        FaultyCall("DeleteVoterPoll", <<0, 0>>, marks,
                   DeleteVoterPoll(Failing(redis, marks), 0, 0),
                   DeleteVoterPoll(redis, 0, 0).err)

FaultyAddPoll ==
    \E poll \in FaultPolls, marks \in Faults :
        FaultyCall("AddPoll", poll, marks, AddPoll(Failing(redis, marks), poll),
                   AddPoll(redis, poll).err)

FaultyUpdatePoll ==
    \E poll \in FaultPolls, marks \in Faults :
        FaultyCall("UpdatePoll", poll, marks, UpdatePoll(Failing(redis, marks), poll),
                   UpdatePoll(redis, poll).err)

FaultyGetPoll ==
    \E marks \in Faults :
        FaultyCall("GetPoll", 0, marks, GetPoll(Failing(redis, marks), 0),
                   GetPoll(redis, 0).err)

FaultyAddVote ==
    \E vote \in FaultVotes, marks \in Faults :
        FaultyCall("AddVote", vote, marks, AddVote(Failing(redis, marks), vote),
                   AddVote(redis, vote).err)

FaultyUpdateVote ==
    \E vote \in FaultVotes, marks \in Faults :
        FaultyCall("UpdateVote", vote, marks, UpdateVote(Failing(redis, marks), vote),
                   UpdateVote(redis, vote).err)

FaultyGetVote ==
    \E marks \in Faults :
        FaultyCall("GetVote", 0, marks, GetVote(Failing(redis, marks), 0),
                   GetVote(redis, 0).err)

NextFaults ==
    \/ FaultyAddVoter
    \/ FaultyUpdateVoter
    \/ FaultyGetVoter
    \/ FaultyGetVoterPoll
    \/ FaultyAddVoterPoll
    \/ FaultyUpdateVoterPoll
    \/ FaultyDeleteVoterPoll
    \/ FaultyAddPoll
    \/ FaultyUpdatePoll
    \/ FaultyGetPoll
    \/ FaultyAddVote
    \/ FaultyUpdateVote
    \/ FaultyGetVote

SpecFaults == Init /\ [][NextFaults]_vars

----------------------------------------------------------------------------
(* The HTTP handlers of the three services. A path parameter is the        *)
(* sequence of its characters; a body is a record that binds or the text   *)
(* of a body that does not.                                                *)

StatusOK == 200
StatusBadRequest == 400
StatusNotFound == 404
StatusInternalServerError == 500

\* The magnitude of a string of digits: its value up to 2^31 - 1, -1 for
\* 2^31 itself and -2 for more.
RECURSIVE DecimalValue(_, _)
DecimalValue(s, acc) ==
    IF s = <<>> THEN acc
    ELSE LET chars == <<"0", "1", "2", "3", "4", "5", "6", "7", "8", "9">>
             d == (CHOOSE i \in 1..10 : chars[i] = Head(s)) - 1
             next == IF acc < 0 THEN -2
                     ELSE IF acc <= (2147483647 - d) \div 10 THEN 10 * acc + d
                     ELSE IF acc = 214748364 /\ d = 8 THEN -1
                     ELSE -2
         IN  DecimalValue(Tail(s), next)

\* strconv.ParseInt(idS, 10, 32)
ParseInt(idS) ==
    IF idS = <<>> THEN [err |-> "invalid syntax", val |-> 0]
    ELSE LET neg == Head(idS) = "-"
             digits == IF Head(idS) \in {"+", "-"} THEN Tail(idS) ELSE idS
         IN  IF digits = <<>> \/ \E i \in 1..Len(digits) :
                                    digits[i] \notin {"0", "1", "2", "3", "4", "5", "6", "7", "8", "9"}
             THEN [err |-> "invalid syntax", val |-> 0]
             ELSE LET n == DecimalValue(digits, 0)
                  IN  IF n = -2 \/ (~neg /\ n = -1)
                      THEN [err |-> "value out of range", val |-> 0]
                      ELSE IF n = -1 THEN [err |-> NoError, val |-> (0 - 2147483647) - 1]
                      ELSE [err |-> NoError, val |-> IF neg THEN 0 - n ELSE n]

\* An id of a route that is taken without its sign when negative.
IdParamUnsigned(idS) ==
    LET parsed == ParseInt(idS)
    IN  IF parsed.err # NoError THEN [ok |-> FALSE, id |-> 0]
        ELSE IF parsed.val >= 0 THEN [ok |-> TRUE, id |-> parsed.val]
        ELSE [ok |-> TRUE, id |-> 0 - (parsed.val + 1)]

\* The id of a route: the parameter parsed, and refused when negative.
IdParam(idS) ==
    LET parsed == ParseInt(idS)
    IN  IF parsed.err # NoError THEN [ok |-> FALSE, id |-> 0]
        ELSE IF parsed.val >= 0 THEN [ok |-> TRUE, id |-> parsed.val]
        ELSE [ok |-> FALSE, id |-> 0]

\* c.ShouldBindJSON(&x) of a body: the JSON text of value, all of it or cut
\* short.
ShouldBindJSON(body) ==
    IF body.complete THEN [err |-> NoError, val |-> body.value]
    ELSE [err |-> "unexpected EOF", val |-> body.value]

\* A handler that binds the body and answers 500 to every error of the store.
BindThenStore(r, body, res) ==
    IF ShouldBindJSON(body).err # NoError
    THEN [status |-> StatusBadRequest, err |-> NoError, store |-> r]
    ELSE IF res.err # NoError
    THEN [status |-> StatusInternalServerError, err |-> res.err, store |-> res.store]
    ELSE [status |-> StatusOK, err |-> NoError, store |-> res.store]

\* A handler that reads the id of the route and answers 500 to every error
\* of the store.
IdThenStore(r, idS, res) ==
    IF ~IdParam(idS).ok
    THEN [status |-> StatusBadRequest, err |-> NoError, store |-> r]
    ELSE IF res.err # NoError
    THEN [status |-> StatusInternalServerError, err |-> res.err, store |-> res.store]
    ELSE [status |-> StatusOK, err |-> NoError, store |-> res.store]

\* The parameters of the routes with an id.
IdParams == {<<"0">>, <<"-", "1">>, <<"x">>, <<>>, <<"+", "1">>, <<"-", "0">>,
             <<"2", "1", "4", "7", "4", "8", "3", "6", "4", "7">>,
             <<"2", "1", "4", "7", "4", "8", "3", "6", "4", "8">>,
             <<"-", "2", "1", "4", "7", "4", "8", "3", "6", "4", "8">>}

\* A request to the route op of the service svc with the parameter or body
\* arg, answered with res while the commands of marks fail; commands fail
\* during the requests that come to send one. The handlers of
\* the polls and the votes service run calls = calls + 1 on the way to their
\* answer of status 200 and on no other way out.
Request(svc, op, arg, marks, res) ==
    /\ calls < MaxHttpCalls
    /\ calls' = calls + 1
    /\ redis' = Unmarked(res.store)
    /\ last' = [op |-> op, ids |-> <<>>, arg |-> arg, err |-> res.err,
                ret |-> IF "APIcalls" \in DOMAIN res THEN res.APIcalls ELSE 0,
                fails |-> marks, status |-> res.status, svc |-> svc]
    /\ prev' = Summary(last)
    /\ health' = IF svc \notin DOMAIN health THEN health
                 ELSE [health EXCEPT ![svc] =
                         [calls |-> IF res.status = StatusOK THEN @.calls + 1 ELSE @.calls,
                          requests |-> @.requests + 1]]
    /\ UNCHANGED inflight

VotersAPI_AddVoter ==
    \E body \in [complete : BOOLEAN, value : FaultVoters] :
      \E marks \in IF body.complete THEN Faults ELSE {{}} :
        LET r == Failing(redis, marks)
        IN  Request("voters", "POST /voters", body, marks,
                    BindThenStore(r, body, AddVoter(r, ShouldBindJSON(body).val)))

PollsAPI_AddPoll ==
    \E body \in [complete : BOOLEAN, value : FaultPolls] :
      \E marks \in IF body.complete THEN Faults ELSE {{}} :
        LET r == Failing(redis, marks)
        IN  Request("polls", "POST /polls", body, marks,
                    BindThenStore(r, body, AddPoll(r, ShouldBindJSON(body).val)))

PollsAPI_UpdatePoll ==
    \E body \in [complete : BOOLEAN, value : FaultPolls] :
      \E marks \in IF body.complete THEN Faults ELSE {{}} :
        LET r == Failing(redis, marks)
        IN  Request("polls", "PUT /polls", body, marks,
                    BindThenStore(r, body, UpdatePoll(r, ShouldBindJSON(body).val)))

PollsAPI_DeletePoll ==
    \E idS \in IdParams :
      \E marks \in IF IdParam(idS).ok THEN Faults ELSE {{}} :
        LET r == Failing(redis, marks)
        IN  Request("polls", "DELETE /polls/:id", idS, marks,
                    IdThenStore(r, idS, DeletePoll(r, IdParam(idS).id)))

\* GetVote answers 404 to every error of the store.
VotesAPI_GetVote ==
    \E idS \in IdParams :
      \E marks \in IF IdParam(idS).ok THEN Faults ELSE {{}} :
        LET r == Failing(redis, marks)
            got == GetVote(r, IdParam(idS).id)
        IN  Request("votes", "GET /votes/:id", idS, marks,
                    IF ~IdParam(idS).ok
                    THEN [status |-> StatusBadRequest, err |-> NoError, store |-> r]
                    ELSE IF got.err # NoError
                    THEN [status |-> StatusNotFound, err |-> got.err, store |-> r]
                    ELSE [status |-> StatusOK, err |-> NoError, store |-> r])

VotesAPI_AddVote ==
    \E body \in [complete : BOOLEAN, value : FaultVotes] :
      \E marks \in IF body.complete THEN Faults ELSE {{}} :
        LET r == Failing(redis, marks)
        IN  Request("votes", "POST /votes", body, marks,
                    BindThenStore(r, body, AddVote(r, ShouldBindJSON(body).val)))

VotesAPI_UpdateVote ==
    \E body \in [complete : BOOLEAN, value : FaultVotes] :
      \E marks \in IF body.complete THEN Faults ELSE {{}} :
        LET r == Failing(redis, marks)
        IN  Request("votes", "PUT /votes", body, marks,
                    BindThenStore(r, body, UpdateVote(r, ShouldBindJSON(body).val)))

VotesAPI_DeleteVote ==
    \E idS \in IdParams :
      \E marks \in IF IdParam(idS).ok THEN Faults ELSE {{}} :
        LET r == Failing(redis, marks)
        IN  Request("votes", "DELETE /votes/:id", idS, marks,
                    IdThenStore(r, idS, DeleteVote(r, IdParam(idS).id)))

VotesAPI_ListAllVotes ==
    \E marks \in Faults, rule \in GrowthRules :
        \E ks \in Orders(Keys(Failing(redis, marks), VoteKeyPrefix)) :
            LET r == Failing(redis, marks)
                res == GetAllVotes(r, ks, rule)
            IN  Request("votes", "GET /votes", <<>>, marks,
                        IF res.err # NoError
                        THEN [status |-> StatusNotFound, err |-> res.err, store |-> r]
                        ELSE [status |-> StatusOK, err |-> NoError, store |-> r])

\* VoteList.GetHealthData returns the count it is given and no error.
VotesAPI_GetHealthData ==
    Request("votes", "GET /votes/health", <<>>, {},
            [status |-> StatusOK, err |-> NoError, store |-> redis,
             APIcalls |-> health["votes"].calls + 1])

NextHttp ==
    \/ VotesAPI_ListAllVotes
    \/ VotesAPI_GetHealthData
    \/ VotersAPI_AddVoter
    \/ PollsAPI_AddPoll
    \/ PollsAPI_UpdatePoll
    \/ PollsAPI_DeletePoll
    \/ VotesAPI_GetVote
    \/ VotesAPI_AddVote
    \/ VotesAPI_UpdateVote
    \/ VotesAPI_DeleteVote

SpecHttp == Init /\ [][NextHttp]_vars

----------------------------------------------------------------------------
(* Properties of the votes service's referential check.                    *)

VoterNotFound == "voter does not exists"
PollNotFound == "poll does not exists"

VoterExists(r, id) == <<VoterKeyPrefix, id>> \in DOMAIN r
PollExists(r, id) == <<PollKeyPrefix, id>> \in DOMAIN r
VoteExists(r, id) == <<VoteKeyPrefix, id>> \in DOMAIN r

\* The records of one namespace.
Namespace(r, prefix) == [k \in Keys(r, prefix) |-> r[k]]

\* Two votes with the same data; Links are the store's, not the caller's.
SameVote(a, b) ==
    /\ a.VoteID = b.VoteID
    /\ a.VoterID = b.VoterID
    /\ a.PollID = b.PollID
    /\ a.VoteValue = b.VoteValue

\* Some listing of all votes shows the vote.
Listed(r, vote) ==
    \E ks \in Orders(Keys(r, VoteKeyPrefix)) :
        \E rule \in GrowthRules :
            LET votes == GetAllVotes(r, ks, rule).votes
            IN  \E i \in 1..Len(votes) : SameVote(votes[i], vote)

\* C1: an AddVote for a VoteID that is not stored, whose voter or poll is
\* absent, fails with a reference error and writes no vote: the votes
\* namespace is the same before and after the call, GetVote of the id finds
\* nothing and no listing of all votes shows the vote.
C1_FailedAddVoteLeavesNoVote ==
    [][(/\ last'.op = "AddVote"
        /\ ~VoteExists(redis, last'.arg.VoteID)
        /\ \/ ~VoterExists(redis, last'.arg.VoterID)
           \/ ~PollExists(redis, last'.arg.PollID))
       => /\ last'.err \in {VoterNotFound, PollNotFound}
          /\ Namespace(redis', VoteKeyPrefix) = Namespace(redis, VoteKeyPrefix)
          /\ GetVote(redis', last'.arg.VoteID).err # NoError
          /\ ~Listed(redis', last'.arg)]_vars

\* C2 as stated: an AddVote whose voter is absent answers voter-not-found,
\* also when the poll is absent too, one whose voter exists and whose poll is
\* absent answers poll-not-found, and it writes nothing.
C2_ReferenceErrorWhateverTheVote ==
    [][last'.op = "AddVote"
       => /\ ~VoterExists(redis, last'.arg.VoterID)
               => last'.err = VoterNotFound /\ redis' = redis
          /\ (VoterExists(redis, last'.arg.VoterID) /\ ~PollExists(redis, last'.arg.PollID))
               => last'.err = PollNotFound /\ redis' = redis]_vars

\* C2 amended: the same for an AddVote whose VoteID is not stored yet, and the
\* two errors are different values.
C2_DistinctReferenceErrors ==
    [][(last'.op = "AddVote" /\ ~VoteExists(redis, last'.arg.VoteID))
       => /\ VoterNotFound # PollNotFound
          /\ ~VoterExists(redis, last'.arg.VoterID)
               => last'.err = VoterNotFound /\ redis' = redis
          /\ (VoterExists(redis, last'.arg.VoterID) /\ ~PollExists(redis, last'.arg.PollID))
               => last'.err = PollNotFound /\ redis' = redis]_vars

\* An AddVote of a new vote whose voter exists and whose poll does not was
\* answered poll-not-found.
C2_Witness ==
    /\ last.op = "AddVote"
    /\ last.err = PollNotFound
    /\ ~VoteExists(redis, last.arg.VoteID)
    /\ VoterExists(redis, last.arg.VoterID)
    /\ ~PollExists(redis, last.arg.PollID)

----------------------------------------------------------------------------
(* Properties of create, read, overwrite and delete in the three stores.   *)

VoterAlreadyExists == "voter already exists"
PollAlreadyExists == "poll already exists"
VoteAlreadyExists == "vote already exists"
VoterDoesNotExist == "voter does not exist"
PollDoesNotExist == "poll does not exist"
VoteDoesNotExist == "vote does not exist"

WithPollLinks(poll) == [poll EXCEPT !.Links = MakeSlice(PollLinks)]
WithVoteLinks(vote) == [vote EXCEPT !.Links = MakeSlice(VoteLinks)]

\* The step is a second call of method op for the id of the call before it,
\* which returned no error.
Again(op) ==
    /\ last.op = op
    /\ last.err = NoError
    /\ last'.op = op
    /\ last'.ids = last.ids

\* The step is a call of method op for the id of the call before it, a call
\* of method first that returned no error.
Follows(first, op) ==
    /\ last.op = first
    /\ last.err = NoError
    /\ last'.op = op
    /\ last'.ids = last.ids

\* The step changes no key but key, which it may remove or overwrite.
OnlyKey(key) ==
    /\ (DOMAIN redis') \ {key} = (DOMAIN redis) \ {key}
    /\ \A k \in (DOMAIN redis) \ {key} : redis'[k] = redis[k]

\* C3: a create that follows a successful create of the same id answers
\* already-exists and leaves the record of the first call as it was stored,
\* whatever the fields of the second call, in each of the three stores.
C3_SecondCreateRejected ==
    [][/\ Again("AddVoter")
          => /\ last'.err = VoterAlreadyExists
             /\ redis'[VoterRedisKeyFromId(last.ids[1])] = MarshalVoter(last.arg)
             /\ redis' = redis
       /\ Again("AddPoll")
          => /\ last'.err = PollAlreadyExists
             /\ redis'[PollRedisKeyFromId(last.ids[1])] = MarshalPoll(WithPollLinks(last.arg))
             /\ redis' = redis
       /\ Again("AddVote")
          => /\ last'.err = VoteAlreadyExists
             /\ redis'[VoteRedisKeyFromId(last.ids[1])] = MarshalVote(WithVoteLinks(last.arg))
             /\ redis' = redis]_vars

\* A second AddVote of a stored id, with other fields than the stored vote,
\* right after the AddVote that stored it.
C3_Witness ==
    /\ prev.op = "AddVote"
    /\ last.op = "AddVote"
    /\ last.ids = prev.ids
    /\ last.err = VoteAlreadyExists
    /\ VoteExists(redis, last.ids[1])
    /\ ~SameVote(GetVote(redis, last.ids[1]).vote, last.arg)

\* C4: a get that follows a successful create of the same id returns the
\* created entity: a voter as it was given, a poll and a vote with the fields
\* given and the Links of their store.
C4_GetAfterCreate ==
    [][/\ Follows("AddVoter", "GetVoter")
          => last'.err = NoError /\ last'.ret = last.arg
       /\ Follows("AddPoll", "GetPoll")
          => last'.err = NoError /\ last'.ret = WithPollLinks(last.arg)
       /\ Follows("AddVote", "GetVote")
          => last'.err = NoError /\ last'.ret = WithVoteLinks(last.arg)]_vars

\* A GetVote right after the AddVote that stored the vote.
C4_Witness ==
    /\ prev.op = "AddVote"
    /\ last.op = "GetVote"
    /\ last.ids = prev.ids
    /\ last.err = NoError
    /\ last.ret.Links = MakeSlice(VoteLinks)

\* The step is a delete of id under key: of an absent key it answers notFound
\* and changes nothing, of a stored key it succeeds and removes that key only.
DeleteEffect(key, notFound) ==
    IF key \in DOMAIN redis
    THEN /\ last'.err = NoError
         /\ key \notin DOMAIN redis'
         /\ OnlyKey(key)
    ELSE /\ last'.err = notFound
         /\ redis' = redis

\* C5: delete of an id that is not stored answers not-found and leaves the
\* store unchanged; delete of a stored id succeeds and removes exactly that
\* key, and a get of the id that follows answers not-found.
C5_DeleteThenGet ==
    [][/\ last'.op = "DeleteVoter"
          => DeleteEffect(VoterRedisKeyFromId(last'.arg), VoterDoesNotExist)
       /\ last'.op = "DeletePoll"
          => DeleteEffect(PollRedisKeyFromId(last'.arg), PollDoesNotExist)
       /\ last'.op = "DeleteVote"
          => DeleteEffect(VoteRedisKeyFromId(last'.arg), VoteDoesNotExist)
       /\ Follows("DeleteVoter", "GetVoter") => last'.err = VoterDoesNotExist
       /\ Follows("DeletePoll", "GetPoll") => last'.err = PollDoesNotExist
       /\ Follows("DeleteVote", "GetVote") => last'.err = VoteDoesNotExist]_vars

\* A GetVoter right after the DeleteVoter that removed the voter, with other
\* records left in the store.
C5_Witness ==
    /\ prev.op = "DeleteVoter"
    /\ last.op = "GetVoter"
    /\ last.ids = prev.ids
    /\ last.err = VoterDoesNotExist
    /\ DOMAIN redis # {}

\* The step is an update of entity under key: of an absent key it answers
\* notFound and changes nothing, of a stored key it succeeds and the record
\* becomes doc, the other keys staying as they are.
UpdateEffect(key, notFound, doc) ==
    IF key \in DOMAIN redis
    THEN /\ last'.err = NoError
         /\ redis'[key] = doc
         /\ OnlyKey(key)
    ELSE /\ last'.err = notFound
         /\ redis' = redis

\* C6: update of an id that is not stored answers not-found and creates no
\* record; update of a stored id replaces the whole record, and the get that
\* follows returns the entity given to update (with the Links of the store for
\* a poll and a vote), so a voter updated with an empty history has none.
C6_UpdateReplaces ==
    [][/\ last'.op = "UpdateVoter"
          => UpdateEffect(VoterRedisKeyFromId(last'.arg.VoterID), VoterDoesNotExist,
                          MarshalVoter(last'.arg))
       /\ last'.op = "UpdatePoll"
          => UpdateEffect(PollRedisKeyFromId(last'.arg.PollID), PollDoesNotExist,
                          MarshalPoll(WithPollLinks(last'.arg)))
       /\ last'.op = "UpdateVote"
          => UpdateEffect(VoteRedisKeyFromId(last'.arg.VoteID), VoteDoesNotExist,
                          MarshalVote(WithVoteLinks(last'.arg)))
       /\ Follows("UpdateVoter", "GetVoter")
          => last'.err = NoError /\ last'.ret = last.arg
       /\ Follows("UpdatePoll", "GetPoll")
          => last'.err = NoError /\ last'.ret = WithPollLinks(last.arg)
       /\ Follows("UpdateVote", "GetVote")
          => last'.err = NoError /\ last'.ret = WithVoteLinks(last.arg)]_vars

\* A GetVoter right after an UpdateVoter: the voter read has no history.
C6_Witness ==
    /\ prev.op = "UpdateVoter"
    /\ last.op = "GetVoter"
    /\ last.ids = prev.ids
    /\ last.err = NoError
    /\ last.ret.VoteHistory = NilSlice

\* C7: UpdateVote of a stored VoteID succeeds and stores the VoterID and the
\* PollID it is given, whether or not a voter and a poll with these ids exist.
C7_UpdateVoteUnchecked ==
    [][(last'.op = "UpdateVote" /\ VoteExists(redis, last'.arg.VoteID))
       => /\ last'.err = NoError
          /\ redis'[VoteRedisKeyFromId(last'.arg.VoteID)].VoterID = last'.arg.VoterID
          /\ redis'[VoteRedisKeyFromId(last'.arg.VoteID)].PollID = last'.arg.PollID]_vars

\* A successful UpdateVote that stored a VoterID and a PollID without record.
C7_Witness ==
    /\ last.op = "UpdateVote"
    /\ last.err = NoError
    /\ ~VoterExists(redis, redis[VoteRedisKeyFromId(last.arg.VoteID)].VoterID)
    /\ ~PollExists(redis, redis[VoteRedisKeyFromId(last.arg.VoteID)].PollID)

\* C8: deleting a voter or a poll, deleting all voters or all polls, and
\* updating a voter or a poll leave every vote record unchanged.
C8_VotesUntouched ==
    [][last'.op \in {"DeleteVoter", "DeletePoll", "DeleteAllVoters", "DeleteAllPolls",
                     "UpdateVoter", "UpdatePoll"}
       => Namespace(redis', VoteKeyPrefix) = Namespace(redis, VoteKeyPrefix)]_vars

\* A voter was deleted and a stored vote still names it: stored votes do not
\* always reference a stored voter.
C8_Witness ==
    /\ last.op = "DeleteVoter"
    /\ last.err = NoError
    /\ \E k \in Keys(redis, VoteKeyPrefix) :
          redis[k].VoterID = last.arg /\ ~VoterExists(redis, redis[k].VoterID)

----------------------------------------------------------------------------
(* Properties of the vote history of a voter.                              *)

PollAlreadyInVoter == "poll already exists in voter"

\* The history stored for the voter under key k.
StoredHistory(r, k) == r[k].VoteHistory.array

\* C9: every stored voter has at most one history entry per PollID.
C9_OneEntryPerPoll ==
    \A k \in Keys(redis, VoterKeyPrefix) :
        \A i, j \in 1..Len(StoredHistory(redis, k)) :
            StoredHistory(redis, k)[i].PollID = StoredHistory(redis, k)[j].PollID
                => i = j

\* C10: an AddVoterPoll that follows an AddVoterPoll for the same voter and
\* the same PollID, which found the voter, answers already-exists and leaves
\* the voter's stored history, the date of the first entry included, as it was.
C10_SecondAddVoterPollRejected ==
    [][(/\ last.op = "AddVoterPoll"
        /\ last.err \in {NoError, PollAlreadyInVoter}
        /\ last'.op = "AddVoterPoll"
        /\ last'.ids = last.ids)
       => /\ last'.err = PollAlreadyInVoter
          /\ StoredHistory(redis', VoterRedisKeyFromId(last.ids[1]))
                = StoredHistory(redis, VoterRedisKeyFromId(last.ids[1]))
          /\ redis' = redis]_vars

\* A second AddVoterPoll right after the one that stored the entry, with
\* another date than the stored entry's.
C10_Witness ==
    /\ prev.op = "AddVoterPoll"
    /\ last.op = "AddVoterPoll"
    /\ last.ids = prev.ids
    /\ last.err = PollAlreadyInVoter
    /\ LET stored == GetVoterPoll(redis, last.ids[1], last.ids[2])
       IN  /\ stored.err = NoError
           /\ stored.poll.VoteDate # last.arg[2].VoteHistory.elems[1].VoteDate

----------------------------------------------------------------------------
(* Properties of the editor of one voter's history.                         *)

PollNotInVoter == "poll does not exist in voter"
PollNotFoundForVoter == "poll not found for given voter"

\* History h after the removal of its first entry for pollId: the last entry
\* moved into the removed slot.
SwapRemoved(h, pollId) ==
    SubSeq([h EXCEPT ![IndexOfPoll(h, pollId)] = h[Len(h)]], 1, Len(h) - 1)

\* C11: a DeleteVoterPoll that returns no error leaves a history one entry
\* shorter, which GetVoterPolls returns without an entry of the removed
\* PollID, and which is the previous history with its last entry moved into
\* the slot of the removed one.
C11_DeleteVoterPollRemoves ==
    [][(last'.op = "DeleteVoterPoll" /\ last'.err = NoError)
       => LET h == StoredHistory(redis, VoterRedisKeyFromId(last'.ids[1]))
              after == GetVoterPolls(redis', last'.ids[1])
          IN  /\ after.err = NoError
              /\ Len(after.polls.elems) = Len(h) - 1
              /\ IndexOfPoll(after.polls.elems, last'.ids[2]) = 0
              /\ after.polls.elems = SwapRemoved(h, last'.ids[2])]_vars

\* C12: UpdateVoterPoll for an entry. Of an absent voter it answers not-found
\* and creates no record; of a voter without an entry of the PollID it answers
\* not-found and changes nothing; otherwise it succeeds and the first entry of
\* that PollID becomes the given one, the length of the history, the other
\* entries, the voter's other fields and the other records staying as they are.
C12_UpdateVoterPollInPlace ==
    [][(last'.op = "UpdateVoterPoll" /\ Len(last'.arg[2].VoteHistory.elems) > 0)
       => LET k == VoterRedisKeyFromId(last'.arg[1])
              entry == last'.arg[2].VoteHistory.elems[1]
          IN  IF k \notin DOMAIN redis
              THEN /\ last'.err = VoterDoesNotExist
                   /\ redis' = redis
              ELSE LET h == StoredHistory(redis, k)
                       i == IndexOfPoll(h, entry.PollID)
                   IN  IF i = 0
                       THEN /\ last'.err = PollNotInVoter
                            /\ redis' = redis
                       ELSE /\ last'.err = NoError
                            /\ redis' = [redis EXCEPT ![k].VoteHistory.array =
                                                         [h EXCEPT ![i] = entry]]]_vars

\* An UpdateVoterPoll has given a new date to the second of two entries.
C12_Witness ==
    /\ last.op = "UpdateVoterPoll"
    /\ last.err = NoError
    /\ LET h == StoredHistory(redis, VoterRedisKeyFromId(last.ids[1]))
       IN  /\ Len(h) = 2
           /\ h[1].PollID # last.ids[2]
           /\ h[2] = [PollID |-> last.ids[2], VoteDate |-> 0]

\* The positions of the entries of history h for pollId.
PositionsOf(h, pollId) == {i \in 1..Len(h) : h[i].PollID = pollId}

----------------------------------------------------------------------------
(* Properties of the calls on a whole namespace.                           *)

DeleteAlls == {"DeleteAllVoters", "DeleteAllPolls", "DeleteAllVotes"}

PrefixOf(op) ==
    IF op \in {"DeleteAllVoters", "GetAllVoters"} THEN VoterKeyPrefix
    ELSE IF op \in {"DeleteAllPolls", "GetAllPolls"} THEN PollKeyPrefix
    ELSE VoteKeyPrefix

\* C14: a deleteAll that runs alone on a working backend returns no error and
\* leaves its namespace empty and the other namespaces as they were, also
\* when its namespace was empty before the call.
C14_DeleteAllSucceeds ==
    [][last'.op \in DeleteAlls
       => /\ last'.err = NoError
          /\ Keys(redis', PrefixOf(last'.op)) = {}
          /\ \A k \in DOMAIN redis :
                k[1] # PrefixOf(last'.op) => k \in DOMAIN redis' /\ redis'[k] = redis[k]]_vars

GetAlls == {"GetAllVoters", "GetAllPolls", "GetAllVotes"}

\* What a get of the record stored under key k returns.
Decoded(r, k) ==
    IF k[1] = VoterKeyPrefix THEN UnmarshalVoter(r[k])
    ELSE IF k[1] = PollKeyPrefix THEN UnmarshalPoll(r[k])
    ELSE UnmarshalVote(r[k])

\* C15: a listAll of a namespace with records returns as many entries as
\* there are records, each record among them; of an empty namespace the
\* voters service returns the empty sequence, and the polls and the votes
\* store one record of id 0 with empty fields and the store's Links.
C15_ListAllReturnsTheRecords ==
    [][last'.op \in GetAlls
       => LET ks == Keys(redis, PrefixOf(last'.op))
          IN  /\ last'.err = NoError
              /\ ks # {}
                 => /\ Len(last'.ret) = Cardinality(ks)
                    /\ \A k \in ks : \E i \in 1..Len(last'.ret) :
                          last'.ret[i] = Decoded(redis, k)
              /\ (ks = {} /\ last'.op = "GetAllVoters") => last'.ret = <<>>
              /\ (ks = {} /\ last'.op = "GetAllPolls")
                 => /\ Len(last'.ret) = 1
                    /\ last'.ret[1].PollID = 0
                    /\ last'.ret[1].PollTitle = ""
                    /\ last'.ret[1].PollQuestion = ""
                    /\ last'.ret[1].PollOptions.elems = <<>>
                    /\ last'.ret[1].Links.elems = PollLinks
              /\ (ks = {} /\ last'.op = "GetAllVotes")
                 => /\ Len(last'.ret) = 1
                    /\ last'.ret[1].VoteID = 0
                    /\ last'.ret[1].VoterID = 0
                    /\ last'.ret[1].PollID = 0
                    /\ last'.ret[1].VoteValue = 0
                    /\ last'.ret[1].Links.elems = VoteLinks]_vars

----------------------------------------------------------------------------
(* Properties of the Links of polls and votes.                             *)

\* C18: every stored poll has the Links of the polls store and every stored
\* vote the Links of the votes store, whatever Links the create or the update
\* was called with; the records a listAll returns, the one it returns for an
\* empty namespace included, carry the same list; a stored voter has no Links.
C18_StoredLinksAreTheStoresList ==
    /\ \A k \in Keys(redis, PollKeyPrefix) :
          redis[k].Links = [null |-> FALSE, array |-> PollLinks]
    /\ \A k \in Keys(redis, VoteKeyPrefix) :
          redis[k].Links = [null |-> FALSE, array |-> VoteLinks]
    /\ \A k \in Keys(redis, VoterKeyPrefix) : "Links" \notin DOMAIN redis[k]
    /\ (last.op = "GetAllPolls" /\ last.err = NoError)
       => \A i \in 1..Len(last.ret) : last.ret[i].Links = MakeSlice(PollLinks)
    /\ (last.op = "GetAllVotes" /\ last.err = NoError)
       => \A i \in 1..Len(last.ret) : last.ret[i].Links = MakeSlice(VoteLinks)

\* A poll has been updated by a call without Links, and a vote is stored
\* that was created by a call with Links of its own.
C18_Witness ==
    /\ last.op = "UpdatePoll"
    /\ last.err = NoError
    /\ last.arg.Links.isNil
    /\ \E k \in Keys(redis, VoteKeyPrefix) : redis[k].VoteValue = 1

----------------------------------------------------------------------------
(* Properties of callers that run at the same time.                        *)

Creates == {"AddVoter", "AddPoll", "AddVote"}

\* The key a create call c writes, and the document it writes there.
CreatedKey(c) ==
    IF c.op = "AddVoter" THEN VoterRedisKeyFromId(c.arg.VoterID)
    ELSE IF c.op = "AddPoll" THEN PollRedisKeyFromId(c.arg.PollID)
    ELSE VoteRedisKeyFromId(c.arg.VoteID)

CreatedDoc(c) ==
    IF c.op = "AddVoter" THEN MarshalVoter(c.arg)
    ELSE IF c.op = "AddPoll" THEN MarshalPoll(WithPollLinks(c.arg))
    ELSE MarshalVote(WithVoteLinks(c.arg))

\* C16: a create that found its id absent writes its record and returns no
\* error whatever was stored under the id since its check; so of two creates
\* of one absent id that both passed the check both succeed, and the record
\* of the one that writes last replaces the record of the other.
C16_CreatePastItsCheckOverwrites ==
    [][\A p \in Procs :
          (inflight[p].op \in Creates /\ inflight[p].pc = "set" /\ inflight'[p].pc = "done")
          => /\ inflight'[p].err = NoError
             /\ redis'[CreatedKey(inflight[p])] = CreatedDoc(inflight[p])
             /\ OnlyKey(CreatedKey(inflight[p]))]_vars

\* Two AddVote calls of one VoteID with different values have both returned
\* no error, and the stored vote is the vote of one of them.
C16_Witness ==
    \E p, q \in Procs :
        /\ inflight[p].op = "AddVote" /\ inflight[p].pc = "done" /\ inflight[p].err = NoError
        /\ inflight[q].op = "AddVote" /\ inflight[q].pc = "done" /\ inflight[q].err = NoError
        /\ inflight[p].arg.VoteID = inflight[q].arg.VoteID
        /\ inflight[p].arg.VoteValue # inflight[q].arg.VoteValue
        /\ redis[CreatedKey(inflight[q])] = CreatedDoc(inflight[q])
        /\ redis[CreatedKey(inflight[q])] # CreatedDoc(inflight[p])

\* The error of a deleteAll that removed another number of keys than KEYS
\* had answered.
PartialFailure(op) ==
    IF op = "DeleteAllVoters" THEN "one or more voters could not be deleted"
    ELSE IF op = "DeleteAllPolls" THEN "one or more polls could not be deleted"
    ELSE "one or more votes could not be deleted"

\* C17: at the DEL of a deleteAll, ks being the keys its KEYS answered: a
\* record stored since under another key of the namespace stays stored, and
\* the call returns no error when such a record exists and every key of ks is
\* still stored; when a key of ks has been deleted since, the call returns
\* the partial-failure error.
C17_DeleteAllBetweenItsSteps ==
    [][\A p \in Procs :
          (inflight[p].op \in DeleteAlls /\ inflight[p].pc = "del" /\ inflight'[p].pc = "done")
          => LET ks == inflight[p].ks
                 now == Keys(redis, PrefixOf(inflight[p].op))
             IN  /\ \A k \in now \ ks : k \in DOMAIN redis' /\ redis'[k] = redis[k]
                 /\ (now \ ks # {} /\ ks \subseteq now) => inflight'[p].err = NoError
                 /\ (ks \ now # {}) => inflight'[p].err = PartialFailure(inflight[p].op)]_vars

----------------------------------------------------------------------------
(* Properties of calls on a failing backend.                               *)

\* The methods that end with a write of the record.
Writers == {"AddVoter", "UpdateVoter", "AddVoterPoll", "UpdateVoterPoll",
            "DeleteVoterPoll", "AddPoll", "UpdatePoll", "AddVote", "UpdateVote"}

\* C19: a get, an update, a create or a call on a voter's history returns the
\* backend's error when its read of the record fails for another reason than
\* a missing key, and when the write it has come to fails.
C19_BackendFailureIsReturned ==
    "fails" \in DOMAIN last
    => /\ ReadsFail \in last.fails => last.err = BackendError
       /\ (WritesFail \in last.fails /\ last.op \in Writers /\ last.sound = NoError)
          => last.err = BackendError

----------------------------------------------------------------------------
(* Properties of the status codes.                                         *)

\* The errors of the stores that say a record or a referenced record is absent.
NotFoundErrors == {"voter does not exist", "poll does not exist", "vote does not exist",
                   VoterNotFound, PollNotFound}

\* The request's body does not bind or its id is not a non-negative number.
BadInput(call) ==
    IF call.op \in {"GET /votes/:id", "DELETE /votes/:id", "DELETE /polls/:id"}
    THEN ~IdParam(call.arg).ok
    ELSE IF call.op \in {"GET /votes", "GET /votes/health"} THEN FALSE
    ELSE ~call.arg.complete

\* C20: a request whose store call fails because a record is absent is
\* answered 404, a request with a malformed body or an invalid id is answered
\* 400, and 500 answers only a failure of another kind.
C20_StatusOfFailure ==
    "status" \in DOMAIN last
    => /\ BadInput(last) => last.status = StatusBadRequest
       /\ (~BadInput(last) /\ last.err \in NotFoundErrors) => last.status = StatusNotFound
       /\ last.status = StatusInternalServerError
          => ~BadInput(last) /\ last.err # NoError /\ last.err \notin NotFoundErrors

----------------------------------------------------------------------------
(* Properties of the call counter.                                         *)

\* C21: after any number of requests to a service, whatever their status, the
\* variable calls of the service equals the number of requests it has
\* answered, and a health report shows that number.
C21_CallsCountsEveryRequest ==
    /\ \A svc \in DOMAIN health : health[svc].calls = health[svc].requests
    /\ ("status" \in DOMAIN last /\ last.op = "GET /votes/health")
       => last.ret = health["votes"].requests

----------------------------------------------------------------------------
(* Properties of the references of a vote under concurrent callers.        *)

\* C22: at the step in which AddVote writes the vote, the voter and the poll
\* the vote names are stored, whatever the other callers did since AddVote
\* checked them.
C22_ReferencesPresentAtTheWrite ==
    [][\A p \in Procs :
          (inflight[p].op = "AddVote" /\ inflight[p].pc = "set" /\ inflight'[p].pc = "done")
          => /\ <<"voters:", inflight[p].arg.VoterID>> \in DOMAIN redis
             /\ <<"polls:", inflight[p].arg.PollID>> \in DOMAIN redis]_vars

----------------------------------------------------------------------------
(* Properties of the order of the checks of AddVote.                       *)

\* C23: AddVote answers already-exists for a stored VoteID whatever the voter
\* and the poll, voter-not-found for a new vote whose voter is absent whatever
\* the poll, poll-not-found for a new vote whose voter is stored and whose
\* poll is absent, and a call that returns one of these errors writes nothing.
C23_FirstFailureOfAddVote ==
    [][last'.op = "AddVote"
       => LET vote == last'.arg
              stored == VoteExists(redis, vote.VoteID)
              voter == VoterExists(redis, vote.VoterID)
              poll == PollExists(redis, vote.PollID)
          IN  /\ stored => last'.err = VoteAlreadyExists
              /\ (~stored /\ ~voter) => last'.err = VoterNotFound
              /\ (~stored /\ voter /\ ~poll) => last'.err = PollNotFound
              /\ (~stored /\ voter /\ poll) => last'.err = NoError
              /\ last'.err # NoError => redis' = redis]_vars

\* An AddVote of a stored VoteID that names an absent voter and an absent poll
\* was answered already-exists.
C23_Witness ==
    /\ last.op = "AddVote"
    /\ last.err = VoteAlreadyExists
    /\ VoteExists(redis, last.arg.VoteID)
    /\ ~VoterExists(redis, last.arg.VoterID)
    /\ ~PollExists(redis, last.arg.PollID)

----------------------------------------------------------------------------
(* Properties of the ids of the routes.                                    *)

IdRoutes == {"GET /votes/:id", "DELETE /votes/:id", "DELETE /polls/:id"}

\* The digits of a parameter: what follows its sign, without leading zeros.
RECURSIVE NoLeadingZeros(_)
NoLeadingZeros(s) ==
    IF Len(s) > 1 /\ Head(s) = "0" THEN NoLeadingZeros(Tail(s)) ELSE s

Unsigned(idS) ==
    IF idS # <<>> /\ Head(idS) \in {"+", "-"} THEN Tail(idS) ELSE idS

Numeral(idS) ==
    /\ Unsigned(idS) # <<>>
    /\ \A i \in 1..Len(Unsigned(idS)) :
          Unsigned(idS)[i] \in {"0", "1", "2", "3", "4", "5", "6", "7", "8", "9"}

\* Numeral a is at most numeral b of the same length; a digit stands for its
\* place in 0..9.
RECURSIVE AtMost(_, _)
AtMost(a, b) ==
    LET place(c) == CHOOSE n \in 0..9 :
                      <<"0", "1", "2", "3", "4", "5", "6", "7", "8", "9">>[n + 1] = c
    IN  IF a = <<>> THEN TRUE
        ELSE IF place(Head(a)) < place(Head(b)) THEN TRUE
        ELSE IF place(Head(a)) > place(Head(b)) THEN FALSE
        ELSE AtMost(Tail(a), Tail(b))

\* The parameter is a decimal numeral of a value in 0..2^31-1.
DecimalId(idS) ==
    /\ Numeral(idS)
    /\ LET digits == NoLeadingZeros(Unsigned(idS))
       IN  /\ Head(idS) = "-" => digits = <<"0">>
           /\ \/ Len(digits) < 10
              \/ /\ Len(digits) = 10
                 /\ AtMost(digits, <<"2", "1", "4", "7", "4", "8", "3", "6", "4", "7">>)

----------------------------------------------------------------------------
(* Properties of the keys.                                                 *)

\* The identity field of the record stored under key k.
IdentityOf(r, k) ==
    IF k[1] = VoterKeyPrefix THEN r[k].VoterID
    ELSE IF k[1] = PollKeyPrefix THEN r[k].PollID
    ELSE r[k].VoteID

NestedWrites == {"AddVoterPoll", "UpdateVoterPoll", "DeleteVoterPoll"}

\* C25: after every call, each record is stored under the key of its own
\* identity field, and a call that edits the history of the voter of the
\* path id changes no key but the key of that id.
C25_KeyIsTheRecordsId ==
    [][/\ \A k \in DOMAIN redis' : IdentityOf(redis', k) = k[2]
       /\ last'.op \in NestedWrites => OnlyKey(VoterRedisKeyFromId(last'.ids[1]))]_vars

\* An AddVoterPoll for the path id 1, whose request carries the VoterID 0,
\* returned no error while voter 0 is stored too.
C25_Witness ==
    /\ last.op = "AddVoterPoll"
    /\ last.err = NoError
    /\ last.ids[1] = 1
    /\ last.arg[2].VoterID = 0
    /\ VoterExists(redis, 0)
    /\ redis[VoterRedisKeyFromId(1)].VoterID = 1

----------------------------------------------------------------------------
(* Properties of the write-back of the history operations.                 *)

\* C27: an AddVoterPoll, UpdateVoterPoll or DeleteVoterPoll that returns no
\* error has written the voter back: no call of them returns no error while
\* its write command fails.
C27_SuccessMeansWritten ==
    ("fails" \in DOMAIN last /\ last.op \in NestedWrites /\ last.err = NoError)
    => WritesFail \notin last.fails

\* C28: AddVoterPoll and UpdateVoterPoll never index outside the VoteHistory
\* of the request: a call whose request has an empty VoteHistory ends with an
\* error value or as a no-op, never with an index out of range.
C28_EmptyRequestIsAnError ==
    (/\ last.op \in {"AddVoterPoll", "UpdateVoterPoll"}
     /\ Len(last.arg[2].VoteHistory.elems) = 0)
    => last.err # IndexOutOfRange

----------------------------------------------------------------------------
(* Properties of callers that edit one voter at the same time.             *)

\* Callers p and q are both done with an AddVoterPoll of the same voter, for
\* two different polls, and both returned no error.
BothAdded(p, q) ==
    /\ p # q
    /\ \A c \in {p, q} : /\ inflight[c].op = "AddVoterPoll"
                         /\ inflight[c].pc = "done"
                         /\ inflight[c].err = NoError
                         /\ Len(inflight[c].arg) = 3
    /\ inflight[p].arg[1] = inflight[q].arg[1]
    /\ inflight[p].arg[2].VoteHistory.elems[1].PollID
         # inflight[q].arg[2].VoteHistory.elems[1].PollID

\* C26: when two AddVoterPoll calls for the same voter with different PollIDs
\* run at the same time and both return no error, the stored voter holds both
\* entries.
C26_BothEntriesAreStored ==
    \A p, q \in Procs :
        (BothAdded(p, q) /\ VoterRedisKeyFromId(inflight[p].arg[1]) \in DOMAIN redis)
        => LET h == UnmarshalVoter(redis[VoterRedisKeyFromId(inflight[p].arg[1])]).VoteHistory.elems
           IN  \A c \in {p, q} :
                  IndexOfPoll(h, inflight[c].arg[2].VoteHistory.elems[1].PollID) # 0

\* C29: an update in flight that passed its existence check never writes a
\* deleted record back: the write step of UpdateVoter creates no key that is
\* absent when the step is taken.
C29_UpdateDoesNotResurrect ==
    [][\A p \in Procs :
          (/\ At(p, "UpdateVoter", "set")
           /\ inflight'[p].pc = "done"
           /\ VoterRedisKeyFromId(inflight[p].arg.VoterID) \notin DOMAIN redis)
          => VoterRedisKeyFromId(inflight[p].arg.VoterID) \notin DOMAIN redis']_vars

----------------------------------------------------------------------------
(* The frame of the store operations.                                      *)

\* The namespace of the store that has the method op.
OwnPrefix(op) ==
    IF op \in {"AddVoter", "UpdateVoter", "DeleteVoter", "DeleteAllVoters", "GetVoter",
               "GetAllVoters", "GetVoterPolls", "GetVoterPoll", "AddVoterPoll",
               "UpdateVoterPoll", "DeleteVoterPoll"} THEN VoterKeyPrefix
    ELSE IF op \in {"AddPoll", "UpdatePoll", "DeletePoll", "DeleteAllPolls", "GetPoll",
                    "GetAllPolls"} THEN PollKeyPrefix
    ELSE VoteKeyPrefix

\* Caller p may be the one whose call returns in this step.
Finishes(p) ==
    /\ inflight'[p].pc = "done"
    /\ inflight[p].pc # "done" \/ calls' # calls

\* C30: a namespace changes only in a step by which an operation of its own
\* store returns, and only when that operation returns no error: operations
\* of the other stores, reads and operations that return an error change no
\* key.
C30_OwnNamespaceAndNoEffectOnError ==
    [][\A prefix \in {VoterKeyPrefix, PollKeyPrefix, VoteKeyPrefix} :
          Namespace(redis', prefix) # Namespace(redis, prefix)
          => \E p \in Procs : /\ Finishes(p)
                              /\ OwnPrefix(inflight'[p].op) = prefix
                              /\ inflight'[p].op \notin Reads
                              /\ inflight'[p].err = NoError]_vars

============================================================================
